---- MODULE Spec2Model ----
(***************************************************************************)
(* RadioScript: the audio assembly pipeline of radioscript/builder.py.     *)
(*                                                                         *)
(* Builder.build is modelled as a state machine over a file system: one    *)
(* action per phase of build (validation, the single-clip conversion, one  *)
(* merge step, normalization, export, the final cleanup).  The external    *)
(* tools (ffmpeg, ffprobe, sox) are the environment: each invocation       *)
(* either succeeds or fails, and a failing ffmpeg may or may not leave a   *)
(* partial output file behind.  Every invocation is appended to the log    *)
(* `calls`, a history variable the properties read.                        *)
(*                                                                         *)
(* Durations are exact rationals: a duration is an integer number of       *)
(* units, Den units to the millisecond, with Den a power of two large      *)
(* enough that every halving done by the clamp (0.5 * min(d1, d2)) of a    *)
(* build of at most MaxClips clips is exact.                               *)
(***************************************************************************)
EXTENDS Integers, Sequences, FiniteSets, TLC

VARIABLES
    output_dir,          \* Builder.output_dir
    normalization_lufs,  \* Builder.normalization_lufs, in 1/LufsDen LUFS
    segments,            \* build(segments, ...): the clip list
    gap,                 \* Builder.gap: None or a duration
    crossfade_defaults,  \* Builder.crossfade_defaults: key -> duration
    normalize,           \* build(..., normalize)
    output_filename,     \* build(..., output_filename)
    fs,                  \* the file system: path -> content, for the files that exist
    fs0,                 \* the file system when build was called
    pc,                  \* the phase build is in
    i,                   \* the merge loop's index (Python's i, 0-based clip index)
    current_file,        \* the accumulated track of the merge loop
    temp_counter,        \* the merge loop's temp name counter
    merged_file,         \* the track handed to normalization and export
    success,             \* the flag build tests last
    result,              \* what build returned: None or the output path
    diag,                \* which return statement build left through
    failed_at,           \* the i of "Failed at segment {i}"
    checked,             \* history: the paths whose existence validation tested
    calls,               \* history: the external tool invocations, in order
    faults,              \* history: the number of tool faults injected so far
    rv,                  \* the state of the component a harness drives: the
                         \* resolver call, the report extraction, the Recorder,
                         \* the prompter loop, the project of the CLI
    other                \* a second build, while
                         \* it is not the one running: its arguments and locals

vars == <<output_dir, normalization_lufs, segments, gap, crossfade_defaults, normalize, output_filename, fs, fs0,
          pc, i, current_file, temp_counter, merged_file, success, result, diag,
          failed_at, checked, calls, faults, rv, other>>

buildVars == <<output_dir, normalization_lufs, segments, gap, crossfade_defaults, normalize, output_filename, fs,
               fs0, pc, i, current_file, temp_counter, merged_file, success,
               result, diag, failed_at, checked, calls, faults, other>>

-----------------------------------------------------------------------------
(* Bounds *)
MaxChars == 4      \* the longest normalization string, in characters

MaxClips == 3      \* the longest clip list
MaxFaults == 1     \* the most tool faults injected into one build
MaxOut == 3        \* the longest analyze-pass output, in tokens

-----------------------------------------------------------------------------
(* Numbers *)

RECURSIVE Pow2(_)
Pow2(n) == IF n <= 0 THEN 1 ELSE 2 * Pow2(n - 1)

Den == Pow2(MaxClips)         \* units per millisecond
Ms(n) == n * Den              \* n milliseconds

RECURSIVE Pow10(_)
Pow10(n) == IF n <= 0 THEN 1 ELSE 10 * Pow10(n - 1)

-----------------------------------------------------------------------------
(* The loudness target.  A normalization string is a sequence of           *)
(* characters; a target is a number of LUFS in units of 1/LufsDen, which   *)
(* holds every fraction a string of the bounded length can spell: a digit  *)
(* and a point precede the fraction.                                       *)

FracDigits == MaxChars - 2
LufsDen == Pow10(FracDigits)

\* the digits \d matches, and int() of one
IsDigit(c) == c \in {"0", "1", "2", "3", "4", "5", "6", "7", "8", "9"}
DigitValue(c) ==
    CASE c = "0" -> 0 [] c = "1" -> 1 [] c = "2" -> 2 [] c = "3" -> 3
      [] c = "4" -> 4 [] c = "5" -> 5 [] c = "6" -> 6 [] c = "7" -> 7
      [] c = "8" -> 8 [] c = "9" -> 9

\* \d at position k of value
DigitAt(value, k) == k \in 1..Len(value) /\ IsDigit(value[k])

\* where the greedy \d+ that starts at position k stops (its last position)
RECURSIVE DigitsEnd(_, _)
DigitsEnd(value, k) ==
    IF DigitAt(value, k + 1) THEN DigitsEnd(value, k + 1) ELSE k

\* int(value[a..b]) for a run of digits
RECURSIVE DigitsValue(_, _, _)
DigitsValue(value, a, b) ==
    IF b < a THEN 0 ELSE 10 * DigitsValue(value, a, b - 1) + DigitValue(value[b])

\* float(text) for text = value[a..b] that the pattern matched
FloatOf(value, a, b) ==
    LET d0 == IF value[a] = "-" THEN a + 1 ELSE a
        d1 == DigitsEnd(value, d0)
        whole == DigitsValue(value, d0, d1) * LufsDen
        frac == IF d1 < b
                THEN DigitsValue(value, d1 + 2, b) * Pow10(FracDigits - (b - d1 - 1))
                ELSE 0
    IN  IF value[a] = "-" THEN 0 - (whole + frac) ELSE whole + frac

\* the pattern (-?\d+(?:\.\d+)?) tried at position a: the last position of
\* the match, 0 when it does not match there
MatchAt(value, a) ==
    LET d0 == IF a \in 1..Len(value) /\ value[a] = "-" THEN a + 1 ELSE a
    IN  IF ~DigitAt(value, d0) THEN 0
        ELSE LET d1 == DigitsEnd(value, d0)
             IN  IF d1 + 1 \in 1..Len(value) /\ value[d1 + 1] = "."
                    /\ DigitAt(value, d1 + 2)
                 THEN DigitsEnd(value, d1 + 2)
                 ELSE d1

\* re.search: the match at the leftmost position that has one; <<>> if none
RECURSIVE Search(_, _)
Search(value, a) ==
    IF a > Len(value) THEN <<>>
    ELSE IF MatchAt(value, a) # 0 THEN <<a, MatchAt(value, a)>>
    ELSE Search(value, a + 1)

\* ParseLufs, had the pattern no sign
ParseLufsUnsigned(value) ==
    LET m == Search(value, 1)
    IN  IF m = <<>> THEN (0 - 16) * LufsDen
        ELSE FloatOf(value, IF value[m[1]] = "-" THEN m[1] + 1 ELSE m[1], m[2])

\* Builder._parse_lufs
ParseLufs(value) ==
    LET m == Search(value, 1)
    IN  IF m = <<>> THEN (0 - 16) * LufsDen ELSE FloatOf(value, m[1], m[2])

\* the default of Builder's normalization argument: "-16 LUFS"
DefaultNormalization == <<"-", "1", "6", " ", "L", "U", "F", "S">>

\* the normalization strings a Builder is constructed with
NormalizationStrings ==
    UNION {[1..n -> {"-", "1", "6", "."}] : n \in 0..MaxChars}

\* Optional[float]: None is the empty sequence, a value x is <<x>>
None == <<>>
Some(x) == <<x>>

Min(a, b) == IF a <= b THEN a ELSE b

\* x * 0.5; exact on every value the model reaches (see HalvingExact)
Half(x) == x \div 2

-----------------------------------------------------------------------------
(* Paths.  A path is its directory, and its file name cut into the prefix  *)
(* the code's naming convention tests, a stem and the extension.           *)

Path(d, p, s, e) == [dir |-> d, pre |-> p, stem |-> s, ext |-> e]

NoFile == Path("", "", "", "")     \* no path (a variable not yet assigned; a None result)

OutDir == output_dir          \* self.output_dir, the directory build works in

TempSingle == Path(OutDir, "_temp_", "single", ".wav")
TempNormalized == Path(OutDir, "_temp_", "normalized", ".wav")
TempOutputPerBuild(k) ==      \* TempOutput, had the name held the build's number
    Path(OutDir, "_temp_",
         (IF other.id = 1 THEN "2" ELSE "1") \o "_" \o ToString(k), ".wav")
TempOutput(k) == Path(OutDir, "_temp_", ToString(k), ".wav")
SilenceFile(k) == Path(OutDir, "_silence_", ToString(k), ".wav")
ConcatList == Path(OutDir, "_concat_list", "", ".txt")

\* output_dir / output_filename; output_filename is [stem, ext]
OutputPath == Path(OutDir, "", output_filename.stem, output_filename.ext)

\* EndsWithMp3, had build taken every output name for an mp3
EndsWithMp3Any(name) == TRUE

\* output_filename.endswith('.mp3')
EndsWithMp3(name) == name.ext = ".mp3"

\* MatchesTempGlob, had the cleanup globbed every directory
MatchesTempGlobAnyDir(p) == p.pre = "_temp_" /\ p.ext = ".wav"

\* output_dir.glob("_temp_*.wav")
MatchesTempGlob(p) == p.dir = OutDir /\ p.pre = "_temp_" /\ p.ext = ".wav"

\* current_file.startswith(str(output_dir / "_temp"))
StartsWithTemp(p) == p.dir = OutDir /\ p.pre = "_temp_"

Exists(f, p) == p \in DOMAIN f

\* f with path p holding content c
Put(f, p, c) == [q \in DOMAIN f \cup {p} |-> IF q = p THEN c ELSE f[q]]

\* Path.unlink(missing_ok=True)
Unlink(f, p) == [q \in DOMAIN f \ {p} |-> f[q]]

\* unlink of every path of f that satisfies the glob
SweepTemp(f) == [q \in {p \in DOMAIN f : ~MatchesTempGlob(p)} |-> f[q]]

-----------------------------------------------------------------------------
(* File contents: the duration, the source clips the audio is made of, in  *)
(* order, and whether the file is a complete output of its tool.           *)

Audio(d, ps) == [dur |-> d, parts |-> ps, whole |-> TRUE]
Partial == [dur |-> 0, parts |-> <<>>, whole |-> FALSE]

-----------------------------------------------------------------------------
(* The inputs build is checked on *)

AssetsDir == "assets"
V3 == Path(AssetsDir, "", "v3", ".wav")        \* a voice clip, 3 s
M2 == Path(AssetsDir, "", "m2", ".wav")        \* a music bed, 2 s
W3 == Path(AssetsDir, "", "w3", ".wav")        \* a voice clip, 3 s
Jingle == Path(AssetsDir, "", "jingle", ".wav")  \* a jingle of 80 ms
Gone == Path(AssetsDir, "", "gone", ".wav")    \* a path with no file behind it

\* a clip the caller keeps in the output directory, under a name that starts
\* like the names build gives its temp files (a music bed of 2 s)
Intro == Path(OutDir, "_temp_", "intro", ".wav")

\* AudioSegment(path, type, crossfade)
AudioSegment(p, t, x) == [path |-> p, type |-> t, crossfade |-> x]

ClipCatalogue ==
    { AudioSegment(V3, "voice", None),
      AudioSegment(M2, "music", None),
      AudioSegment(W3, "voice", Some(Ms(1000))),
      AudioSegment(Jingle, "music", None),
      AudioSegment(Intro, "music", Some(Ms(5000))),
      AudioSegment(Gone, "voice", None) }

ClipLists == UNION {[1..n -> ClipCatalogue] : n \in 0..MaxClips}

InitialFiles ==
    [p \in {V3, M2, W3, Jingle, Intro} |->
        CASE p = V3 -> Audio(Ms(3000), <<V3>>)
          [] p = M2 -> Audio(Ms(2000), <<M2>>)
          [] p = W3 -> Audio(Ms(3000), <<W3>>)
          [] p = Jingle -> Audio(Ms(80), <<Jingle>>)
          [] p = Intro -> Audio(Ms(2000), <<Intro>>)]

\* what a build that died in a merge step left in the output directory: its
\* accumulated track _temp_0.wav and the silence file of its step
Leftovers ==
    [p \in {TempOutput(0), SilenceFile(1)} |->
        IF p = TempOutput(0) THEN Audio(Ms(1000), <<TempOutput(0)>>)
        ELSE Audio(Ms(500), <<SilenceFile(1)>>)]

\* the default argument of Builder.__init__ and Config.crossfade
DefaultPolicy ==
    [k \in {"voice_to_music", "music_to_voice", "voice_to_voice", "music_to_music"}
        |-> Ms(100)]

\* a caller's policy that sets three of the four keys
PartialPolicy ==
    [k \in {"voice_to_music", "music_to_voice", "voice_to_voice"} |->
        CASE k = "voice_to_music" -> Ms(100)
          [] k = "music_to_voice" -> Ms(100)
          [] k = "voice_to_voice" -> Ms(40)]

\* a caller's policy with four different durations
FullPolicy ==
    [k \in {"voice_to_music", "music_to_voice", "voice_to_voice", "music_to_music"} |->
        CASE k = "voice_to_music" -> Ms(100)
          [] k = "music_to_voice" -> Ms(200)
          [] k = "voice_to_voice" -> Ms(40)
          [] k = "music_to_music" -> Ms(500)]

EmptyPolicy == [k \in {} |-> 0]

\* Builder.__init__: self.crossfade_defaults = crossfade_defaults or {...}
BuilderPolicy(arg) == IF DOMAIN arg = {} THEN DefaultPolicy ELSE arg

OutputNames == {[stem |-> "show", ext |-> ".mp3"], [stem |-> "show", ext |-> ".wav"]}

-----------------------------------------------------------------------------
(* The external tools.  An invocation ends "ok", "error" (nothing written) *)
(* or "error_partial" (the tool failed after it had opened its output).    *)
(* A tool whose input file is missing fails before it writes.              *)

\* a log entry: the tool, its input files, its output file, its numeric
\* argument, how it ended, and (analyze pass) what its output looked like
Call(op, ins, out, arg, res) ==
    [op |-> op, ins |-> ins, out |-> out, arg |-> arg, res |-> res, note |-> ""]

AllExist(f, ins) == \A k \in 1..Len(ins) : Exists(f, ins[k])

\* the outcomes the tool can have on inputs ins when n faults were injected before
ToolOutcomes(f, ins, n) ==
    IF ~AllExist(f, ins) THEN {"error"}
    ELSE {"ok"} \cup (IF n < MaxFaults THEN {"error", "error_partial"} ELSE {})

FaultCost(f, ins, o) == IF o # "ok" /\ AllExist(f, ins) THEN 1 ELSE 0

\* the file system after a tool wrote (or failed to write) content c to out
Written(f, out, o, c) ==
    CASE o = "ok" -> Put(f, out, c)
      [] o = "error_partial" -> Put(f, out, Partial)
      [] OTHER -> f

RECURSIVE SumDur(_, _)
SumDur(f, ins) ==
    IF ins = <<>> THEN 0 ELSE f[Head(ins)].dur + SumDur(f, Tail(ins))

RECURSIVE AllParts(_, _)
AllParts(f, ins) ==
    IF ins = <<>> THEN <<>> ELSE f[Head(ins)].parts \o AllParts(f, Tail(ins))

\* GetDurationResults, had a failed ffprobe yielded a duration of 1 s
GetDurationResultsGuess(f, p, n) ==
    IF ~Exists(f, p) THEN {[val |-> Ms(1000), flt |-> 0, res |-> "error"]}
    ELSE {[val |-> f[p].dur, flt |-> 0, res |-> "ok"]}
         \cup (IF n < MaxFaults THEN {[val |-> Ms(1000), flt |-> 1, res |-> "error"]}
               ELSE {})

\* Builder.get_duration: ffprobe's answer, 0.0 when ffprobe fails.
\* The results it can give on path p: [val, flt, res] with flt = 1 for an
\* injected fault and res how ffprobe ended.
GetDurationResults(f, p, n) ==
    IF ~Exists(f, p) THEN {[val |-> 0, flt |-> 0, res |-> "error"]}
    ELSE {[val |-> f[p].dur, flt |-> 0, res |-> "ok"]}
         \cup (IF n < MaxFaults THEN {[val |-> 0, flt |-> 1, res |-> "error"]} ELSE {})

\* the fallback of the policy lookup, 0.3 s
FallbackCrossfade == Ms(300)

\* the floor under which a crossfade is skipped, 0.05 s
CrossfadeFloor == Ms(50)

\* _get_crossfade_duration, had it tested "if override:" (0 counts as absent)
GetCrossfadeDurationTruthy(policy, prev_type, next_type, override) ==
    IF override # None /\ override[1] # 0 THEN override[1]
    ELSE LET key == prev_type \o "_to_" \o next_type
         IN  IF key \in DOMAIN policy THEN policy[key] ELSE FallbackCrossfade

\* Builder._get_crossfade_duration
GetCrossfadeDuration(policy, prev_type, next_type, override) ==
    IF override # None THEN override[1]
    ELSE LET key == prev_type \o "_to_" \o next_type
         IN  IF key \in DOMAIN policy THEN policy[key] ELSE FallbackCrossfade

\* CrossfadeTwo, had the filter played the two files end to end
CrossfadeTwoNoOverlap(f, file1, file2, duration, output, o) ==
    [fs |-> IF o = "ok"
            THEN Put(f, output,
                     Audio(f[file1].dur + f[file2].dur,
                           f[file1].parts \o f[file2].parts))
            ELSE Written(f, output, o, Partial),
     ok |-> o = "ok",
     calls |-> <<Call("crossfade", <<file1, file2>>, output, duration, o)>>]

\* Builder._crossfade_two with tool outcome o: [fs, ok, calls]
CrossfadeTwo(f, file1, file2, duration, output, o) ==
    [fs |-> IF o = "ok"
            THEN Put(f, output,
                     Audio(f[file1].dur + f[file2].dur - duration,
                           f[file1].parts \o f[file2].parts))
            ELSE Written(f, output, o, Partial),
     ok |-> o = "ok",
     calls |-> <<Call("crossfade", <<file1, file2>>, output, duration, o)>>]

\* the list file of _concat_simple: one "file '...'" line per input
FileList(files) == [dur |-> 0, parts |-> files, whole |-> TRUE]

\* ConcatSimple, had it unlinked the list file after a successful run only
ConcatSimpleLeavesList(f, files, output, o) ==
    LET listed == Put(f, ConcatList, FileList(files))
    IN  [fs |-> IF o = "ok"
                THEN Unlink(Put(listed, output,
                                Audio(SumDur(f, files), AllParts(f, files))),
                            ConcatList)
                ELSE Written(listed, output, o, Partial),
         ok |-> o = "ok",
         calls |-> <<Call("concat", files, output, 0, o)>>]

\* Builder._concat_simple with tool outcome o: the list file is written,
\* ffmpeg runs, and the list file is unlinked whatever happened
ConcatSimple(f, files, output, o) ==
    LET listed == Put(f, ConcatList, FileList(files))
    IN  [fs |-> Unlink(IF o = "ok"
                       THEN Put(listed, output,
                                Audio(SumDur(f, files), AllParts(f, files)))
                       ELSE Written(listed, output, o, Partial),
                       ConcatList),
         ok |-> o = "ok",
         calls |-> <<Call("concat", files, output, 0, o)>>]

\* the sox call that synthesizes the silence file, with tool outcome o
SynthSilence(f, silence_file, g, o) ==
    [fs |-> IF o = "ok" THEN Put(f, silence_file, Audio(g, <<silence_file>>)) ELSE f,
     calls |-> <<Call("silence", <<>>, silence_file, g, o)>>]

-----------------------------------------------------------------------------
(* The analyze pass.  ffmpeg's stderr is a sequence of tokens: the braces, *)
(* "m" for a well-formed member ("input_i" : "-23.1") and "x" for any      *)
(* other text (a log line).                                                *)

Tokens == {"{", "}", "m", "x"}
AnalyzeOutputs == UNION {[1..n -> Tokens] : n \in 0..MaxOut}

\* str.rfind: the 0-based index of the last c in s, -1 when there is none
RFind(s, c) ==
    LET at == {k \in 1..Len(s) : s[k] = c}
    IN  IF at = {} THEN -1 ELSE (CHOOSE k \in at : \A j \in at : j <= k) - 1

\* s[a:b] for 0 <= a <= b <= len(s)
Slice(s, a, b) == SubSeq(s, a + 1, b)

\* json.loads accepts the text: an object that is empty, or holds a member
\* or an object
RECURSIVE IsJSON(_)
IsJSON(t) ==
    /\ Len(t) >= 2
    /\ t[1] = "{"
    /\ t[Len(t)] = "}"
    /\ LET body == SubSeq(t, 2, Len(t) - 1)
       IN  body = <<>> \/ body = <<"m">> \/ IsJSON(body)

\* the text _normalize hands to json.loads: <<text>>, or None when the
\* braces are not found
ReportText(stderr) ==
    LET json_start == RFind(stderr, "{")
        json_end == RFind(stderr, "}") + 1
    IN  IF json_start >= 0 /\ json_end > json_start
        THEN Some(Slice(stderr, json_start, json_end))
        ELSE None

\* the analysis is usable: _normalize goes on to the second pass
AnalysisParsed(stderr) ==
    ReportText(stderr) # None /\ IsJSON(ReportText(stderr)[1])

\* what an output looks like: it holds no "{", or no "}" after its last "{",
\* or braces around text that is not JSON, or braces around JSON
TextClass(stderr) ==
    LET opens == {k \in 1..Len(stderr) : stderr[k] = "{"}
        closes == {k \in 1..Len(stderr) : stderr[k] = "}"}
    IN  IF opens = {} THEN "no_open"
        ELSE LET a == CHOOSE k \in opens : \A j \in opens : j <= k
             IN  IF ~\E k \in closes : k > a THEN "no_close"
                 ELSE LET b == CHOOSE k \in closes : \A j \in closes : j <= k
                      IN  IF IsJSON(SubSeq(stderr, a, b)) THEN "json" ELSE "not_json"

\* what the analyze pass can print, as far as _normalize is concerned: for
\* each output, what it looks like and whether _normalize found a report in it
Analyses ==
    {[class |-> TextClass(s), parsed |-> AnalysisParsed(s)] : s \in AnalyzeOutputs}

\* Builder._normalize_single_pass with tool outcome o
NormalizeSinglePass(f, input_file, output_file, o) ==
    [fs |-> IF o = "ok"
            THEN Put(f, output_file, Audio(f[input_file].dur, f[input_file].parts))
            ELSE Written(f, output_file, o, Partial),
     ok |-> o = "ok",
     calls |-> <<Call("loudnorm_single", <<input_file>>, output_file,
                        normalization_lufs, o)>>]

\* Builder._normalize: the analyze pass ended rc and printed an output that
\* analysis a describes; the second tool invocation ended o
Normalize2(f, input_file, output_file, rc, a, o) ==
    LET analyze == [Call("loudnorm_analyze", <<input_file>>, NoFile, normalization_lufs, rc)
                        EXCEPT !.note = a.class]
    IN  IF a.parsed
        THEN [fs |-> IF o = "ok"
                     THEN Put(f, output_file,
                              Audio(f[input_file].dur, f[input_file].parts))
                     ELSE Written(f, output_file, o, Partial),
              ok |-> o = "ok",
              calls |-> <<analyze,
                          Call("loudnorm_measured", <<input_file>>, output_file,
                               normalization_lufs, o)>>]
        ELSE LET sp == NormalizeSinglePass(f, input_file, output_file, o)
             IN  [fs |-> sp.fs, ok |-> sp.ok, calls |-> <<analyze>> \o sp.calls]

\* ffmpeg is given one of its input files as its output file: it exits
\* ("Output ... same as Input") before it writes
InPlace(ins, out) == \E k \in 1..Len(ins) : ins[k] = out

\* Builder.bitrate, in kbit/s: the default "192k"
Bitrate == 192

\* Builder._export_mp3 with tool outcome o
ExportMp3(f, input_file, output_file, o) ==
    [fs |-> IF o = "ok"
            THEN Put(f, output_file, Audio(f[input_file].dur, f[input_file].parts))
            ELSE Written(f, output_file, o, Partial),
     ok |-> o = "ok",
     calls |-> <<Call("encode", <<input_file>>, output_file, Bitrate, o)>>]

\* the generic ffmpeg conversion of build (its exit status is not read)
Convert(f, input_file, output_file, o) ==
    [fs |-> IF o = "ok"
            THEN Put(f, output_file, Audio(f[input_file].dur, f[input_file].parts))
            ELSE Written(f, output_file, o, Partial),
     calls |-> <<Call("convert", <<input_file>>, output_file, 0, o)>>]

-----------------------------------------------------------------------------
(* Builder.build *)

\* FirstMissing, had the loop tested the first clip only
FirstMissingHeadOnly(segs, f) ==
    IF segs # <<>> /\ ~Exists(f, segs[1].path) THEN 1 ELSE 0

\* the 1-based position of the first clip whose file does not exist, 0 if none
FirstMissing(segs, f) ==
    LET miss == {k \in 1..Len(segs) : ~Exists(f, segs[k].path)}
    IN  IF miss = {} THEN 0 ELSE CHOOSE k \in miss : \A j \in miss : k <= j

\* the paths the validation loop tested before it returned
PathsChecked(segs, f) ==
    LET m == FirstMissing(segs, f)
        n == IF m = 0 THEN Len(segs) ELSE m
    IN  [k \in 1..n |-> segs[k].path]

\* Validation, had build lacked its "if not segments" guard
ValidationNoEmptyGuard(segs, f) ==
    IF FirstMissing(segs, f) # 0
    THEN [diag |-> "MissingInput", checked |-> PathsChecked(segs, f)]
    ELSE [diag |-> "", checked |-> PathsChecked(segs, f)]

\* the outcome of the two guards at the top of build
Validation(segs, f) ==
    IF segs = <<>> THEN [diag |-> "EmptyInput", checked |-> <<>>]
    ELSE IF FirstMissing(segs, f) # 0
         THEN [diag |-> "MissingInput", checked |-> PathsChecked(segs, f)]
         ELSE [diag |-> "", checked |-> PathsChecked(segs, f)]

\* EffectiveCrossfade, had the step not clamped to the measured durations
EffectiveCrossfadeNoClamp(desired, prev_duration, curr_duration) ==
    IF desired < CrossfadeFloor THEN 0 ELSE desired

\* EffectiveCrossfade, had the step lacked the 0.05 s floor
EffectiveCrossfadeNoFloor(desired, prev_duration, curr_duration) ==
    Min(desired, Half(Min(prev_duration, curr_duration)))

\* EffectiveCrossfade, had the step tested the floor before it clamped
EffectiveCrossfadeFloorFirst(desired, prev_duration, curr_duration) ==
    IF desired < CrossfadeFloor THEN 0
    ELSE Min(desired, Half(Min(prev_duration, curr_duration)))

\* the clamp and the floor of a crossfade-mode merge step
EffectiveCrossfade(desired, prev_duration, curr_duration) ==
    LET max_xfade == Half(Min(prev_duration, curr_duration))
        clamped == Min(desired, max_xfade)
    IN  IF clamped < CrossfadeFloor THEN 0 ELSE clamped

\* GapStep, had the step concatenated the two clips without the silence
GapStepNoSilence(f, cur, seg, temp_output, silence_file, n) ==
    LET files == <<cur, seg.path>>
    IN  { LET c == ConcatSimple(f, files, temp_output, o)
          IN  [fs |-> c.fs, ok |-> c.ok, calls |-> c.calls,
               flt |-> n + FaultCost(f, files, o)]
          : o \in ToolOutcomes(f, files, n) }

\* a merge step in silence-gap mode: the results it can have, [fs, ok, calls, flt]
GapStep(f, cur, seg, temp_output, silence_file, n) ==
    UNION {
      LET s == SynthSilence(f, silence_file, gap[1], o1)
          n1 == n + (IF o1 = "ok" THEN 0 ELSE 1)
          files == <<cur, silence_file, seg.path>>
      IN  { LET c == ConcatSimple(s.fs, files, temp_output, o2)
            IN  [fs |-> Unlink(c.fs, silence_file),
                 ok |-> c.ok,
                 calls |-> s.calls \o c.calls,
                 flt |-> n1 + FaultCost(s.fs, files, o2)]
            : o2 \in ToolOutcomes(s.fs, files, n1) }
      : o1 \in {"ok"} \cup (IF n < MaxFaults THEN {"error"} ELSE {}) }

\* a merge step in crossfade mode: the results it can have
CrossfadeStep(f, cur, prev_type, seg, temp_output, n) ==
    UNION { UNION {
      LET n2 == n + m1.flt + m2.flt
          desired == GetCrossfadeDuration(crossfade_defaults, prev_type,
                                          seg.type, seg.crossfade)
          xfade_duration == EffectiveCrossfade(desired, m1.val, m2.val)
          files == <<cur, seg.path>>
          refused == xfade_duration > 0 /\ InPlace(files, temp_output)
          measured == << Call("measure", <<cur>>, NoFile, m1.val, m1.res),
                         Call("measure", <<seg.path>>, NoFile, m2.val, m2.res) >>
      IN  { LET t == IF xfade_duration > 0
                     THEN CrossfadeTwo(f, cur, seg.path, xfade_duration, temp_output, o)
                     ELSE ConcatSimple(f, files, temp_output, o)
            IN  [fs |-> t.fs,
                 ok |-> t.ok,
                 calls |-> measured \o t.calls,
                 flt |-> IF refused THEN n2 ELSE n2 + FaultCost(f, files, o)]
            : o \in IF refused THEN {"error"} ELSE ToolOutcomes(f, files, n2) }
      : m2 \in GetDurationResults(f, seg.path, n + m1.flt) }
      : m1 \in GetDurationResults(f, cur, n) }

\* Normalized, had build taken _temp_normalized.wav whatever _normalize answered
NormalizedAnyway(f, ok, merged, normalized_file) ==
    [fs |-> f, merged_file |-> normalized_file]

\* Normalized, had build exported the merged track whatever _normalize answered
NormalizedKeepsMerged(f, ok, merged, normalized_file) ==
    [fs |-> f, merged_file |-> merged]

\* Normalized, had build unlinked the merged track before it read the answer
NormalizedUnlinkFirst(f, ok, merged, normalized_file) ==
    [fs |-> IF merged # normalized_file THEN Unlink(f, merged) ELSE f,
     merged_file |-> IF ok THEN normalized_file ELSE merged]

\* what build does with the answer of _normalize: on failure the merged track
\* stays the track to export; on success it is unlinked and replaced
Normalized(f, ok, merged, normalized_file) ==
    IF ~ok
    THEN [fs |-> f, merged_file |-> merged]
    ELSE [fs |-> IF merged # normalized_file THEN Unlink(f, merged) ELSE f,
          merged_file |-> normalized_file]

\* ExportStep, had build not read what the export did
ExportStepUnchecked(f, merged, name, output_path, o) ==
    LET r == IF EndsWithMp3(name) THEN ExportMp3(f, merged, output_path, o).fs
             ELSE Convert(f, merged, output_path, o).fs
        c == IF EndsWithMp3(name) THEN ExportMp3(f, merged, output_path, o).calls
             ELSE Convert(f, merged, output_path, o).calls
    IN  [fs |-> r, calls |-> c, success |-> TRUE]

\* the export of build with tool outcome o: [fs, calls, success]
ExportStep(f, merged, name, output_path, o) ==
    IF EndsWithMp3(name)
    THEN LET r == ExportMp3(f, merged, output_path, o)
         IN  [fs |-> r.fs, calls |-> r.calls, success |-> r.ok]
    ELSE LET r == Convert(f, merged, output_path, o)
         IN  [fs |-> r.fs, calls |-> r.calls, success |-> Exists(r.fs, output_path)]

\* FailedAtSegment, had the message counted the pairs from 0
FailedAtSegmentZeroBased(k) == k - 1

\* the i of "Failed at segment {i}" when the step of loop index k failed
FailedAtSegment(k) == k

\* NextCurrent, had the loop kept merging into its first operand
NextCurrentStale(cur, temp_output) == cur

\* current_file = temp_output: the step's output is the new accumulated track
NextCurrent(cur, temp_output) == temp_output

\* AfterMerge, had build gone from the merge loop straight to its cleanup
AfterMergeNoExport == "CleaningUp"

\* GapMode, had the step tested "if self.gap:" (a gap of 0 counts as unset)
GapModeTruthy(g) == g # None /\ g[1] # 0

\* self.gap is not None: the step joins with a silence, not with a crossfade
GapMode(g) == g # None

\* the gaps a Builder is made with: none, a gap of 0, a gap of 1 s
Gaps == {None, Some(0), Some(Ms(1000))}

\* SingleClip, had build sent a list of one clip through the merge loop
SingleClipNever(segs) == FALSE

\* len(segments) == 1: the clip is converted, nothing is merged
SingleClip(segs) == Len(segs) = 1

\* the track that leaves the merge loop goes to normalization, or to export
AfterMerge == IF normalize THEN "Normalizing" ELSE "Exporting"

Validate ==
    /\ pc = "Validating"
    /\ LET v == Validation(segments, fs)
       IN  /\ checked' = v.checked
           /\ IF v.diag # ""
              THEN /\ pc' = "Failed"
                   /\ diag' = v.diag
                   /\ UNCHANGED <<current_file, i>>
              ELSE /\ pc' = "Merging"
                   /\ diag' = diag
                   /\ current_file' = IF Len(segments) > 1 THEN segments[1].path
                                      ELSE current_file
                   /\ i' = IF Len(segments) > 1 THEN 1 ELSE i
    /\ UNCHANGED <<output_dir, normalization_lufs, segments, gap, crossfade_defaults, normalize, output_filename,
                   fs, fs0, temp_counter, merged_file, success, result,
                   failed_at, calls, faults, rv, other>>

\* len(segments) == 1: the clip is converted to _temp_single.wav
ConvertSingle ==
    /\ pc = "Merging"
    /\ SingleClip(segments)
    /\ \E o \in IF InPlace(<<segments[1].path>>, TempSingle) THEN {"error"}
               ELSE ToolOutcomes(fs, <<segments[1].path>>, faults) :
         LET c == Convert(fs, segments[1].path, TempSingle, o)
         IN  /\ fs' = c.fs
             /\ calls' = calls \o c.calls
             /\ faults' = IF InPlace(<<segments[1].path>>, TempSingle) THEN faults
                          ELSE faults + FaultCost(fs, <<segments[1].path>>, o)
    /\ merged_file' = TempSingle
    /\ pc' = AfterMerge
    /\ UNCHANGED <<output_dir, normalization_lufs, segments, gap, crossfade_defaults, normalize, output_filename,
                   fs0, i, current_file, temp_counter, success, result, diag,
                   failed_at, checked, rv, other>>

\* one iteration of the merge loop
MergeStep ==
    /\ pc = "Merging"
    /\ ~SingleClip(segments)
    /\ LET curr_seg == segments[i + 1]
           temp_output == TempOutput(temp_counter)
           tc == temp_counter + 1
           results == IF GapMode(gap)
                      THEN GapStep(fs, current_file, curr_seg, temp_output,
                                   SilenceFile(tc), faults)
                      ELSE CrossfadeStep(fs, current_file, segments[i].type,
                                         curr_seg, temp_output, faults)
       IN  \E r \in results :
             /\ temp_counter' = tc
             /\ calls' = calls \o r.calls
             /\ faults' = r.flt
             /\ IF ~r.ok
                THEN /\ fs' = r.fs
                     /\ pc' = "Failed"
                     /\ diag' = "MergeFailure"
                     /\ failed_at' = FailedAtSegment(i)
                     /\ UNCHANGED <<i, current_file, merged_file>>
                ELSE /\ fs' = IF StartsWithTemp(current_file)
                              THEN Unlink(r.fs, current_file) ELSE r.fs
                     /\ current_file' = NextCurrent(current_file, temp_output)
                     /\ i' = i + 1
                     /\ IF i + 1 < Len(segments)
                        THEN UNCHANGED <<pc, merged_file>>
                        ELSE /\ merged_file' = current_file'
                             /\ pc' = AfterMerge
                     /\ UNCHANGED <<diag, failed_at>>
    /\ UNCHANGED <<output_dir, normalization_lufs, segments, gap, crossfade_defaults, normalize, output_filename,
                   fs0, success, result, checked, rv, other>>

\* if normalize: ... (the loudness normalization of the merged track)
Normalize ==
    /\ pc = "Normalizing"
    /\ LET normalized_file == TempNormalized
           ins == <<merged_file>>
           rcs == IF ~AllExist(fs, ins) THEN {"error"}
                  ELSE {"ok"} \cup (IF faults < MaxFaults THEN {"error"} ELSE {})
           \* with no input to read, ffmpeg prints its error and no report
           outs == IF ~AllExist(fs, ins) THEN {x \in Analyses : x.class # "json"}
                   ELSE Analyses
       IN  \E rc \in rcs, a \in outs :
             LET n1 == faults + FaultCost(fs, ins, rc)
             IN  \E o \in ToolOutcomes(fs, ins, n1) :
                   LET r == Normalize2(fs, merged_file, normalized_file, rc, a, o)
                       t == Normalized(r.fs, r.ok, merged_file, normalized_file)
                   IN  /\ calls' = calls \o r.calls
                       /\ faults' = n1 + FaultCost(fs, ins, o)
                       /\ fs' = t.fs
                       /\ merged_file' = t.merged_file
    /\ pc' = "Exporting"
    /\ UNCHANGED <<output_dir, normalization_lufs, segments, gap, crossfade_defaults, normalize, output_filename,
                   fs0, i, current_file, temp_counter, success, result, diag,
                   failed_at, checked, rv, other>>

\* the export to the final format
Export ==
    /\ pc = "Exporting"
    /\ \E o \in ToolOutcomes(fs, <<merged_file>>, faults) :
         LET r == ExportStep(fs, merged_file, output_filename, OutputPath, o)
         IN  /\ faults' = faults + FaultCost(fs, <<merged_file>>, o)
             /\ fs' = r.fs
             /\ calls' = calls \o r.calls
             /\ success' = r.success
    /\ pc' = "CleaningUp"
    /\ UNCHANGED <<output_dir, normalization_lufs, segments, gap, crossfade_defaults, normalize, output_filename,
                   fs0, i, current_file, temp_counter, merged_file, result, diag,
                   failed_at, checked, rv, other>>

\* the cleanup of the temp files, and the return
Cleanup ==
    /\ pc = "CleaningUp"
    /\ fs' = SweepTemp(Unlink(fs, merged_file))
    /\ IF success
       THEN \E m \in GetDurationResults(fs', OutputPath, faults) :
              /\ calls' = calls \o <<Call("measure", <<OutputPath>>, NoFile, m.val, m.res)>>
              /\ faults' = faults + m.flt
              /\ result' = OutputPath
              /\ diag' = "Built"
              /\ pc' = "Done"
       ELSE /\ result' = NoFile
            /\ diag' = "ExportFailure"
            /\ pc' = "Failed"
            /\ UNCHANGED <<calls, faults>>
    /\ UNCHANGED <<output_dir, normalization_lufs, segments, gap, crossfade_defaults, normalize, output_filename,
                   fs0, i, current_file, temp_counter, merged_file, success,
                   failed_at, checked, rv, other>>

-----------------------------------------------------------------------------
(* The specification of one build *)

NoCall == [prev |-> "", next |-> "", override |-> None, out |-> None]

\* no second build
NoBuild == [id |-> 0]

Init ==
    /\ output_dir = "output"
    /\ normalization_lufs = ParseLufs(DefaultNormalization)
    /\ segments \in ClipLists
    /\ gap \in Gaps
    /\ crossfade_defaults = BuilderPolicy(PartialPolicy)
    /\ normalize \in BOOLEAN
    /\ output_filename \in OutputNames
    /\ fs = InitialFiles
    /\ fs0 = fs
    /\ pc = "Validating"
    /\ i = 0
    /\ current_file = NoFile
    /\ temp_counter = 0
    /\ merged_file = NoFile
    /\ success = FALSE
    /\ result = NoFile
    /\ diag = ""
    /\ failed_at = 0
    /\ checked = <<>>
    /\ calls = <<>>
    /\ faults = 0
    /\ rv = NoCall
    /\ other = NoBuild

Next ==
    \/ Validate
    \/ ConvertSingle
    \/ MergeStep
    \/ Normalize
    \/ Export
    \/ Cleanup

Spec == Init /\ [][Next]_vars

\* build has returned
Returned == pc \in {"Done", "Failed"}

TypeOK ==
    /\ pc \in {"Validating", "Merging", "Normalizing", "Exporting", "CleaningUp",
               "Done", "Failed"}
    /\ faults \in 0..MaxFaults
    /\ i \in 0..Len(segments)
    /\ temp_counter \in 0..MaxClips

\* every halving of the clamp was exact: the measured durations are even
HalvingExact ==
    \A k \in 1..Len(calls) : calls[k].op = "measure" => calls[k].arg % 2 = 0

-----------------------------------------------------------------------------
(* The specification of one build in an output directory that holds the    *)
(* files a run that died in a merge step left behind.                      *)

MaxLeftoverClips == 2      \* the longest clip list built in that directory

InitLeftovers ==
    /\ output_dir = "output"
    /\ normalization_lufs = ParseLufs(DefaultNormalization)
    /\ segments \in {s \in ClipLists : Len(s) <= MaxLeftoverClips}
    /\ gap \in {None, Some(Ms(1000))}
    /\ crossfade_defaults = BuilderPolicy(PartialPolicy)
    /\ normalize \in BOOLEAN
    /\ output_filename \in OutputNames
    /\ fs = Leftovers @@ InitialFiles
    /\ fs0 = fs
    /\ pc = "Validating"
    /\ i = 0
    /\ current_file = NoFile
    /\ temp_counter = 0
    /\ merged_file = NoFile
    /\ success = FALSE
    /\ result = NoFile
    /\ diag = ""
    /\ failed_at = 0
    /\ checked = <<>>
    /\ calls = <<>>
    /\ faults = 0
    /\ rv = NoCall
    /\ other = NoBuild

SpecLeftovers == InitLeftovers /\ [][Next]_vars

-----------------------------------------------------------------------------
(* The specification of one build in an output directory that holds the    *)
(* output files of an earlier build.                                       *)

InitRebuild ==
    /\ output_dir = "output"
    /\ normalization_lufs = ParseLufs(DefaultNormalization)
    /\ segments \in {s \in ClipLists : Len(s) <= MaxLeftoverClips}
    /\ gap \in {None, Some(Ms(1000))}
    /\ crossfade_defaults = BuilderPolicy(PartialPolicy)
    /\ normalize \in BOOLEAN
    /\ output_filename \in OutputNames
    /\ fs = [p \in {Path(OutDir, "", "show", ".mp3"), Path(OutDir, "", "show", ".wav")}
                |-> Audio(Ms(1000), <<p>>)] @@ InitialFiles
    /\ fs0 = fs
    /\ pc = "Validating"
    /\ i = 0
    /\ current_file = NoFile
    /\ temp_counter = 0
    /\ merged_file = NoFile
    /\ success = FALSE
    /\ result = NoFile
    /\ diag = ""
    /\ failed_at = 0
    /\ checked = <<>>
    /\ calls = <<>>
    /\ faults = 0
    /\ rv = NoCall
    /\ other = NoBuild

SpecRebuild == InitRebuild /\ [][Next]_vars

-----------------------------------------------------------------------------
(* The specification of one crossfade-mode build of clips whose overrides  *)
(* and whose policy hold negative, zero, boundary and oversized values.    *)

MaxWindowClips == 2        \* the longest clip list of these builds

\* the clips carry the overrides a caller of build can give: none, negative,
\* zero, the floor itself, and more than any clip lasts; the policy has a
\* zero, a negative and a below-floor value, and no entry for music_to_music
InitWindow ==
    /\ output_dir = "output"
    /\ normalization_lufs = ParseLufs(DefaultNormalization)
    /\ segments \in UNION {[1..n ->
            { AudioSegment(V3, "voice", None),
              AudioSegment(V3, "voice", Some(0 - Ms(1000))),
              AudioSegment(M2, "music", Some(0)),
              AudioSegment(W3, "voice", Some(CrossfadeFloor)),
              AudioSegment(Jingle, "music", None),
              AudioSegment(Intro, "music", Some(Ms(5000))) }] : n \in 1..MaxWindowClips}
    /\ gap = None
    /\ crossfade_defaults \in
          { BuilderPolicy([k \in {"voice_to_music", "music_to_voice", "voice_to_voice"} |->
                              CASE k = "voice_to_music" -> 0 - Ms(100)
                                [] k = "music_to_voice" -> Ms(20)
                                [] k = "voice_to_voice" -> 0]),
            BuilderPolicy(EmptyPolicy) }
    /\ normalize \in BOOLEAN
    /\ output_filename \in OutputNames
    /\ fs = InitialFiles
    /\ fs0 = fs
    /\ pc = "Validating"
    /\ i = 0
    /\ current_file = NoFile
    /\ temp_counter = 0
    /\ merged_file = NoFile
    /\ success = FALSE
    /\ result = NoFile
    /\ diag = ""
    /\ failed_at = 0
    /\ checked = <<>>
    /\ calls = <<>>
    /\ faults = 0
    /\ rv = NoCall
    /\ other = NoBuild

SpecWindow == InitWindow /\ [][Next]_vars

\* Builder(normalization = value) for a string drawn by the initial state,
\* kept in rv, then build(normalize = True)
InitLufs ==
    /\ output_dir = "output"
    /\ \E value \in NormalizationStrings :
          /\ rv = [normalization |-> value]
          /\ normalization_lufs = ParseLufs(value)
    /\ segments \in { << AudioSegment(V3, "voice", None) >>,
                      << AudioSegment(V3, "voice", None),
                         AudioSegment(M2, "music", None) >> }
    /\ gap = None
    /\ crossfade_defaults = BuilderPolicy(PartialPolicy)
    /\ normalize = TRUE
    /\ output_filename = [stem |-> "show", ext |-> ".mp3"]
    /\ fs = InitialFiles
    /\ fs0 = fs
    /\ pc = "Validating"
    /\ i = 0
    /\ current_file = NoFile
    /\ temp_counter = 0
    /\ merged_file = NoFile
    /\ success = FALSE
    /\ result = NoFile
    /\ diag = ""
    /\ failed_at = 0
    /\ checked = <<>>
    /\ calls = <<>>
    /\ faults = MaxFaults
    /\ other = NoBuild

SpecLufs == InitLufs /\ [][Next]_vars

\* the clips of a caller who builds again in the directory of a run that
\* died in a merge step and hands build the track that run had accumulated,
\* output/_temp_0.wav, or a clip kept as output/_temp_single.wav
InitResume ==
    /\ output_dir = "output"
    /\ normalization_lufs = ParseLufs(DefaultNormalization)
    /\ segments \in UNION {[1..n ->
            { AudioSegment(TempOutput(0), "music", None),
              AudioSegment(TempSingle, "music", None),
              AudioSegment(V3, "voice", None),
              AudioSegment(M2, "music", None) }] : n \in 1..MaxClips}
    /\ gap = None
    /\ crossfade_defaults = BuilderPolicy(PartialPolicy)
    /\ normalize \in BOOLEAN
    /\ output_filename \in OutputNames
    /\ fs = [p \in {TempSingle} |-> Audio(Ms(2000), <<TempSingle>>)]
                @@ Leftovers @@ InitialFiles
    /\ fs0 = fs
    /\ pc = "Validating"
    /\ i = 0
    /\ current_file = NoFile
    /\ temp_counter = 0
    /\ merged_file = NoFile
    /\ success = FALSE
    /\ result = NoFile
    /\ diag = ""
    /\ failed_at = 0
    /\ checked = <<>>
    /\ calls = <<>>
    /\ faults = MaxFaults
    /\ rv = NoCall
    /\ other = NoBuild

SpecResume == InitResume /\ [][Next]_vars

-----------------------------------------------------------------------------
(* The specification of the crossfade resolver: one call of                *)
(* _get_crossfade_duration on the kinds, the override and the policy drawn *)
(* by the initial state.                                                   *)

Kinds == {"voice", "music", "jingle"}
Overrides == {None, Some(0), Some(Ms(1000)), Some(Ms(5000))}
Policies == {BuilderPolicy(EmptyPolicy), BuilderPolicy(PartialPolicy),
             BuilderPolicy(FullPolicy)}

InitResolve ==
    /\ output_dir = "output"
    /\ normalization_lufs = ParseLufs(DefaultNormalization)
    /\ segments = <<>>
    /\ gap = None
    /\ crossfade_defaults \in Policies
    /\ normalize = TRUE
    /\ output_filename = [stem |-> "show", ext |-> ".mp3"]
    /\ fs = InitialFiles
    /\ fs0 = fs
    /\ pc = "Resolving"
    /\ i = 0
    /\ current_file = NoFile
    /\ temp_counter = 0
    /\ merged_file = NoFile
    /\ success = FALSE
    /\ result = NoFile
    /\ diag = ""
    /\ failed_at = 0
    /\ checked = <<>>
    /\ calls = <<>>
    /\ faults = 0
    /\ rv \in [prev : Kinds, next : Kinds, override : Overrides, out : {None}]
    /\ other = NoBuild

Resolve ==
    /\ pc = "Resolving"
    /\ rv.out = None
    /\ rv' = [rv EXCEPT !.out = Some(GetCrossfadeDuration(crossfade_defaults,
                                        rv.prev, rv.next, rv.override))]
    /\ UNCHANGED buildVars

NextResolve == Resolve

SpecResolve == InitResolve /\ [][NextResolve]_vars

-----------------------------------------------------------------------------
(* The specification of the report extraction of _normalize: the text it   *)
(* hands to json.loads, for one analyze-pass output drawn by the initial   *)
(* state.                                                                  *)

InitReport ==
    /\ output_dir = "output"
    /\ normalization_lufs = ParseLufs(DefaultNormalization)
    /\ segments = <<>>
    /\ gap = None
    /\ crossfade_defaults = BuilderPolicy(PartialPolicy)
    /\ normalize = TRUE
    /\ output_filename = [stem |-> "show", ext |-> ".mp3"]
    /\ fs = InitialFiles
    /\ fs0 = fs
    /\ pc = "Extracting"
    /\ i = 0
    /\ current_file = NoFile
    /\ temp_counter = 0
    /\ merged_file = NoFile
    /\ success = FALSE
    /\ result = NoFile
    /\ diag = ""
    /\ failed_at = 0
    /\ checked = <<>>
    /\ calls = <<>>
    /\ faults = 0
    /\ rv \in [stderr : AnalyzeOutputs, out : {None}]
    /\ other = NoBuild

\* the lines of _normalize that find the report: out becomes <<None>> when
\* no text is handed to json.loads, <<<<text>>>> when text is
ExtractReport ==
    /\ pc = "Extracting"
    /\ rv.out = None
    /\ rv' = [rv EXCEPT !.out = Some(ReportText(rv.stderr))]
    /\ UNCHANGED buildVars

NextReport == ExtractReport

SpecReport == InitReport /\ [][NextReport]_vars

-----------------------------------------------------------------------------
(* The specification of two builds on one output directory.  One build     *)
(* runs at a time, phase by phase; the arguments and the locals of the     *)
(* build that is not running are kept in `other`, and Switch hands the     *)
(* processor to it.  The two share the file system and nothing else.  No   *)
(* tool fault is injected: a tool fails only when its input is missing.    *)

\* the arguments and the locals of the running build, as build number n
Locals(n) ==
    [id |-> n, output_dir |-> output_dir, segments |-> segments,
     normalize |-> normalize,
     output_filename |-> output_filename, pc |-> pc, i |-> i,
     current_file |-> current_file, temp_counter |-> temp_counter,
     merged_file |-> merged_file, success |-> success, result |-> result,
     diag |-> diag, failed_at |-> failed_at, checked |-> checked,
     calls |-> calls]

\* a build that was called and has not taken a step
Called(n, segs, norm, name) ==
    [id |-> n, output_dir |-> output_dir, segments |-> segs, normalize |-> norm,
     output_filename |-> name,
     pc |-> "Validating", i |-> 0, current_file |-> NoFile, temp_counter |-> 0,
     merged_file |-> NoFile, success |-> FALSE, result |-> NoFile, diag |-> "",
     failed_at |-> 0, checked |-> <<>>, calls |-> <<>>]

\* the clip lists of the two builds
TwoBuildLists ==
    { << AudioSegment(V3, "voice", None), AudioSegment(M2, "music", None),
         AudioSegment(W3, "voice", Some(Ms(1000))) >>,
      << AudioSegment(M2, "music", None), AudioSegment(V3, "voice", None),
         AudioSegment(Jingle, "music", None) >>,
      << AudioSegment(M2, "music", None), AudioSegment(V3, "voice", None) >>,
      << AudioSegment(Jingle, "music", None) >> }

InitTwo ==
    /\ output_dir = "output"
    /\ normalization_lufs = ParseLufs(DefaultNormalization)
    /\ segments \in TwoBuildLists
    /\ gap \in {None, Some(Ms(1000))}
    /\ crossfade_defaults = BuilderPolicy(PartialPolicy)
    /\ normalize \in BOOLEAN
    /\ output_filename = [stem |-> "show", ext |-> ".mp3"]
    /\ fs = InitialFiles
    /\ fs0 = fs
    /\ pc = "Validating"
    /\ i = 0
    /\ current_file = NoFile
    /\ temp_counter = 0
    /\ merged_file = NoFile
    /\ success = FALSE
    /\ result = NoFile
    /\ diag = ""
    /\ failed_at = 0
    /\ checked = <<>>
    /\ calls = <<>>
    /\ faults = MaxFaults
    /\ rv = NoCall
    /\ \E segs \in TwoBuildLists, norm \in BOOLEAN :
          other = Called(2, segs, norm, [stem |-> "show", ext |-> ".wav"])

\* the running build is suspended and the other build runs
Switch ==
    /\ other.id # 0
    /\ other.pc \notin {"Done", "Failed"}
    /\ other' = Locals(IF other.id = 1 THEN 2 ELSE 1)
    /\ output_dir' = other.output_dir
    /\ segments' = other.segments
    /\ normalize' = other.normalize
    /\ output_filename' = other.output_filename
    /\ pc' = other.pc
    /\ i' = other.i
    /\ current_file' = other.current_file
    /\ temp_counter' = other.temp_counter
    /\ merged_file' = other.merged_file
    /\ success' = other.success
    /\ result' = other.result
    /\ diag' = other.diag
    /\ failed_at' = other.failed_at
    /\ checked' = other.checked
    /\ calls' = other.calls
    /\ UNCHANGED <<normalization_lufs, gap, crossfade_defaults, fs, fs0, faults, rv>>

NextTwo ==
    \/ Validate
    \/ ConvertSingle
    \/ MergeStep
    \/ Normalize
    \/ Export
    \/ Cleanup
    \/ Switch

SpecTwo == InitTwo /\ [][NextTwo]_vars

-----------------------------------------------------------------------------
(* The components around the builder keep their state in rv; the build     *)
(* variables stay as a build that was never called left them.              *)

NoBuildCalled ==
    /\ output_dir = "output"
    /\ normalization_lufs = ParseLufs(DefaultNormalization)
    /\ segments = <<>>
    /\ gap = None
    /\ crossfade_defaults = BuilderPolicy(EmptyPolicy)
    /\ normalize = TRUE
    /\ output_filename = [stem |-> "show", ext |-> ".mp3"]
    /\ fs = InitialFiles
    /\ fs0 = fs
    /\ i = 0
    /\ current_file = NoFile
    /\ temp_counter = 0
    /\ merged_file = NoFile
    /\ success = FALSE
    /\ result = NoFile
    /\ diag = ""
    /\ failed_at = 0
    /\ checked = <<>>
    /\ calls = <<>>
    /\ faults = 0
    /\ other = NoBuild

-----------------------------------------------------------------------------
(* The Recorder of radioscript/recorder.py, background mode.  rv holds the *)
(* Recorder's fields, the rec processes it spawned, the files of its       *)
(* output directory and what the last call returned.  A rec process is the *)
(* environment: while it lives it writes its temp file, and it may exit on *)
(* its own.                                                                *)

MaxRecordings == 2         \* the most rec processes spawned

RecordingsDir == "recordings"
Filenames == {"seg_1", "seg_2"}

\* output_dir / f"_temp_{filename}" and output_dir / filename
RecTempPath(filename) == Path(RecordingsDir, "_temp_", filename, ".wav")
RecOutputPath(filename) == Path(RecordingsDir, "", filename, ".wav")

\* a file of the recordings directory: whether it has 1000 bytes or more,
\* the process whose capture it holds, and whether sox trimmed it
RecFile(enough, pid, trimmed) == [enough |-> enough, by |-> pid, trimmed |-> trimmed]

\* what a call returned is <<"True">>, <<"False">>, <<"None">> or <<"path", p>>

\* what Popen and the 0.1 s that follow can give: Popen raises; the process
\* has exited by the poll, having created its file or not; it is running
PopenOutcomes == {"raises", "exited", "exited_file", "running"}

\* the lines of start_recording after its guard
Spawn(r, filename, o) ==
    LET pid == Len(r.procs) + 1
        t == RecTempPath(filename)
        spawned == [r EXCEPT !.recording_temp_path = t,
                             !.procs = Append(@, [alive |-> o = "running", path |-> t])]
    IN  CASE o = "raises" ->
               [r EXCEPT !.recording_temp_path = t, !.recording_process = 0,
                         !.ret = <<"False">>]
          [] o = "exited" ->
               [spawned EXCEPT !.recording_process = 0, !.ret = <<"False">>]
          [] o = "exited_file" ->
               [spawned EXCEPT !.recording_process = 0, !.ret = <<"False">>,
                               !.files = Put(@, t, RecFile(FALSE, pid, FALSE))]
          [] OTHER ->
               [spawned EXCEPT !.recording_process = pid, !.ret = <<"True">>]

\* StartRecording, had it lacked the "already recording" guard
StartRecordingNoGuard(r, filename, o) == Spawn(r, filename, o)

\* Recorder.start_recording(filename), with what Popen gave
StartRecording(r, filename, o) ==
    IF r.recording_process # 0
    THEN [r EXCEPT !.ret = <<"False">>]
    ELSE Spawn(r, filename, o)

\* Recorder._trim_silence: sox writes the trimmed file, or, when it fails,
\* the input is copied
TrimSilence(files, input_path, output_path, sox_ok) ==
    Put(files, output_path, [files[input_path] EXCEPT !.trimmed = sox_ok])

\* Recorder.stop_recording(filename)
StopRecording(r, filename, sox_ok) ==
    IF r.recording_process = 0
    THEN [r EXCEPT !.ret = <<"None">>]
    ELSE LET output_path == RecOutputPath(filename)
             t == r.recording_temp_path
             stopped == [r EXCEPT !.procs[r.recording_process].alive = FALSE,
                                  !.recording_process = 0]
         IN  CASE ~Exists(r.files, t) ->
                    [stopped EXCEPT !.ret = <<"None">>]
               [] ~r.files[t].enough ->
                    [stopped EXCEPT !.files = Unlink(@, t), !.ret = <<"None">>]
               [] r.trim_silence ->
                    [stopped EXCEPT
                        !.files = Unlink(TrimSilence(@, t, output_path, sox_ok), t),
                        !.ret = <<"path", output_path>>]
               [] OTHER ->
                    [stopped EXCEPT !.files = Unlink(Put(@, output_path, r.files[t]), t),
                                    !.ret = <<"path", output_path>>]

\* Recorder.is_recording()
IsRecording(r) ==
    CASE r.recording_process = 0 -> [r EXCEPT !.ret = <<"False">>]
      [] ~r.procs[r.recording_process].alive ->
            [r EXCEPT !.recording_process = 0, !.ret = <<"False">>]
      [] OTHER -> [r EXCEPT !.ret = <<"True">>]

\* the rec processes that are alive
Alive(r) == {p \in 1..Len(r.procs) : r.procs[p].alive}

\* Recorder.__init__
NewRecorder(trim) ==
    [recording_process |-> 0, recording_temp_path |-> NoFile,
     trim_silence |-> trim, procs |-> <<>>,
     files |-> [p \in {} |-> RecFile(FALSE, 0, FALSE)],
     op |-> "", arg |-> "", ret |-> <<>>]

InitRecorder ==
    /\ NoBuildCalled
    /\ pc = "Recording"
    /\ \E trim \in BOOLEAN : rv = NewRecorder(trim)

DoStartRecording ==
    /\ pc = "Recording"
    /\ \E filename \in Filenames, o \in PopenOutcomes :
          /\ Len(StartRecording(rv, filename, o).procs) <= MaxRecordings
          /\ rv' = [StartRecording(rv, filename, o)
                        EXCEPT !.op = "start_recording", !.arg = filename]
    /\ UNCHANGED buildVars

DoStopRecording ==
    /\ pc = "Recording"
    /\ \E filename \in Filenames, sox_ok \in BOOLEAN :
          rv' = [StopRecording(rv, filename, sox_ok)
                    EXCEPT !.op = "stop_recording", !.arg = filename]
    /\ UNCHANGED buildVars

DoIsRecording ==
    /\ pc = "Recording"
    /\ rv' = [IsRecording(rv) EXCEPT !.op = "is_recording", !.arg = ""]
    /\ UNCHANGED buildVars

\* process pid has not yet written 1000 bytes of its own to its file
CanCapture(r, pid) ==
    LET t == r.procs[pid].path
    IN  ~(Exists(r.files, t) /\ r.files[t].by = pid /\ r.files[t].enough)

\* the living rec process pid writes: it creates (truncating) its file, or
\* takes it to 1000 bytes and more
Captured(r, pid) ==
    LET t == r.procs[pid].path
        mine == Exists(r.files, t) /\ r.files[t].by = pid
    IN  [r EXCEPT !.files = Put(@, t, RecFile(mine, pid, FALSE)),
                  !.op = "capture", !.arg = "", !.ret = <<>>]

\* the living rec process pid exits on its own
Exited(r, pid) ==
    [r EXCEPT !.procs[pid].alive = FALSE, !.op = "exit", !.arg = "", !.ret = <<>>]

Capture ==
    /\ pc = "Recording"
    /\ \E pid \in Alive(rv) :
          /\ CanCapture(rv, pid)
          /\ rv' = Captured(rv, pid)
    /\ UNCHANGED buildVars

RecExits ==
    /\ pc = "Recording"
    /\ \E pid \in Alive(rv) : rv' = Exited(rv, pid)
    /\ UNCHANGED buildVars

NextRecorder ==
    \/ DoStartRecording
    \/ DoStopRecording
    \/ DoIsRecording
    \/ Capture
    \/ RecExits

SpecRecorder == InitRecorder /\ [][NextRecorder]_vars

-----------------------------------------------------------------------------
(* The prompter loop of radioscript/prompter.py for one segment of a       *)
(* recording session, with the callbacks cmd_record gives it: they call    *)
(* the Recorder with the segment's filename.  rv holds the Recorder (rec), *)
(* the locals of _run_prompt, what show_prompt returned, the session's     *)
(* state of the segment and, as history, the paths that on_stop_recording  *)
(* returned.                                                               *)

SegmentFilename == "seg_1"

\* the recorder after the callback, and what the callback returned
OnIsRecording(p) == [p EXCEPT !.rec = IsRecording(p.rec)]
OnStartRecording(p, o) == [p EXCEPT !.rec = StartRecording(p.rec, SegmentFilename, o)]
OnStopRecording(p, sox_ok) ==
    LET r == StopRecording(p.rec, SegmentFilename, sox_ok)
    IN  [p EXCEPT !.rec = r,
                  !.saved = IF r.ret[1] = "path" THEN Append(@, r.ret[2]) ELSE @]

\* show_prompt returns (continue_session, recorded_path); cmd_record then
\* updates the segment's state if recorded_path is set
Return(p, continue_session) ==
    [p EXCEPT !.returned = <<continue_session, p.recorded_path>>,
              !.recorded = @ \/ p.recorded_path # None]

\* the key handling of one pass of the loop
HandleKey(p, key, o, sox_ok) ==
    CASE key = "q" ->
           IF p.is_recording
           THEN Return(OnStopRecording(p, sox_ok), FALSE)
           ELSE Return(p, FALSE)
      [] key = "r" ->
           IF ~p.is_recording
           THEN LET q == OnStartRecording(p, o)
                IN  [q EXCEPT !.is_recording = q.rec.ret = <<"True">>]
           ELSE p
      [] key = " " ->
           IF p.is_recording
           THEN LET q == OnStopRecording(p, sox_ok)
                IN  [q EXCEPT !.recorded_path =
                                IF q.rec.ret[1] = "path" THEN Some(q.rec.ret[2]) ELSE @,
                              !.is_recording = FALSE]
           ELSE p
      [] key = "n" -> IF p.recorded_path # None THEN Return(p, TRUE) ELSE p
      [] key = "s" -> Return(p, TRUE)
      [] OTHER -> p

\* one pass of the while loop: the recording status is polled, then the key
RunPromptPass(p, key, o, sox_ok) ==
    LET polled == OnIsRecording(p)
        q == [polled EXCEPT !.is_recording = polled.rec.ret = <<"True">>]
    IN  [HandleKey(q, key, o, sox_ok) EXCEPT !.key = key]

InitPrompter ==
    /\ NoBuildCalled
    /\ pc = "Prompting"
    /\ \E trim \in BOOLEAN :
          rv = [rec |-> NewRecorder(trim), recorded_path |-> None,
                is_recording |-> FALSE, key |-> "", returned |-> <<>>,
                recorded |-> FALSE, saved |-> <<>>]

\* the user presses a key (or the 100 ms pass) and the loop takes one pass
PromptPass ==
    /\ pc = "Prompting"
    /\ rv.returned = <<>>
    /\ \E key \in {"q", "r", " ", "n", "s", "other"}, o \in PopenOutcomes, sox_ok \in BOOLEAN :
          /\ Len(RunPromptPass(rv, key, o, sox_ok).rec.procs) <= MaxRecordings
          /\ rv' = RunPromptPass(rv, key, o, sox_ok)
    /\ UNCHANGED buildVars

PromptCapture ==
    /\ pc = "Prompting"
    /\ rv.returned = <<>>
    /\ \E pid \in Alive(rv.rec) :
          /\ CanCapture(rv.rec, pid)
          /\ rv' = [rv EXCEPT !.rec = Captured(rv.rec, pid)]
    /\ UNCHANGED buildVars

PromptRecExits ==
    /\ pc = "Prompting"
    /\ rv.returned = <<>>
    /\ \E pid \in Alive(rv.rec) : rv' = [rv EXCEPT !.rec = Exited(rv.rec, pid)]
    /\ UNCHANGED buildVars

NextPrompter ==
    \/ PromptPass
    \/ PromptCapture
    \/ PromptRecExits

SpecPrompter == InitPrompter /\ [][NextPrompter]_vars

-----------------------------------------------------------------------------
(* The project of radioscript/cli.py: the parsed script, the session state *)
(* (.radioscript.json) and the files of the project directory.  rv holds   *)
(* the three.  The state changes by the CLI's own updates; the files also  *)
(* change under the user's hands.  Checker.check and the collection loop   *)
(* of cmd_build are operators on the project.                              *)

MaxSegments == 2           \* the longest script

\* parser.Segment: an audio link (content is the path) or a text to record
\* (filename is the generated recording name)
ScriptSegment(id, type, content, filename, crossfade) ==
    [id |-> id, type |-> type, content |-> content, filename |-> filename,
     crossfade |-> crossfade]

\* the script segments that can stand at position k
SegmentsAt(k) ==
    { ScriptSegment(k, "audio", c, "", x) :
          c \in {"jingle", "m2"}, x \in {None, Some(Ms(1000))} }
        \cup { ScriptSegment(k, "text", "text", "seg_" \o ToString(k), None) }

\* script_dir / segment.content and recordings_dir / filename
AudioPath(content) == Path(AssetsDir, "", content, ".wav")
RecordingPath(filename) == Path(RecordingsDir, "", filename, ".wav")

\* RadioScript._get_segment_state: the entry of the segment, created if absent
GetSegmentState(st, id) ==
    IF id \in DOMAIN st THEN st
    ELSE [k \in DOMAIN st \cup {id} |->
             IF k = id THEN [recorded |-> FALSE, filename |-> ""] ELSE st[k]]

\* UpdateSegmentState, had it stored the flag without the filename
UpdateSegmentStateNoFilename(st, id, filename) ==
    [k \in DOMAIN st \cup {id} |->
        IF k = id THEN [recorded |-> TRUE, filename |-> ""] ELSE st[k]]

\* RadioScript._update_segment_state
UpdateSegmentState(st, id, filename) ==
    [k \in DOMAIN st \cup {id} |->
        IF k = id THEN [recorded |-> TRUE, filename |-> filename] ELSE st[k]]

\* state.get("segments", {}).get(seg_key, {}), with the defaults of the two
\* .get that follow
SegStateOrDefault(st, id) ==
    IF id \in DOMAIN st THEN st[id] ELSE [recorded |-> FALSE, filename |-> ""]

\* Checker.check_audio_files: exists, per audio segment, in script order
RECURSIVE CheckAudioFiles(_, _)
CheckAudioFiles(sc, files) ==
    IF sc = <<>> THEN <<>>
    ELSE (IF Head(sc).type # "audio" THEN <<>>
          ELSE << AudioPath(Head(sc).content) \in files >>)
         \o CheckAudioFiles(Tail(sc), files)

\* Checker.check_voice_recordings: recorded, per text segment, in script order
RECURSIVE CheckVoiceRecordings(_, _, _)
CheckVoiceRecordings(sc, st, files) ==
    IF sc = <<>> THEN <<>>
    ELSE (IF Head(sc).type # "text" THEN <<>>
          ELSE LET seg_state == SegStateOrDefault(st, Head(sc).id)
                   recorded == seg_state.recorded
                   filename == seg_state.filename
               IN  << IF recorded /\ filename # ""
                      THEN RecordingPath(filename) \in files
                      ELSE recorded >>)
         \o CheckVoiceRecordings(Tail(sc), st, files)

\* Checker.check: ready_for_build
ReadyForBuild(sc, st, files) ==
    /\ \A k \in DOMAIN CheckAudioFiles(sc, files) : CheckAudioFiles(sc, files)[k]
    /\ \A k \in DOMAIN CheckVoiceRecordings(sc, st, files) :
          CheckVoiceRecordings(sc, st, files)[k]

\* the collection loop of cmd_build: the segments for the builder, the
\* audio files reported missing and missing_recordings
RECURSIVE Collect(_, _, _)
Collect(sc, st, files) ==
    IF sc = <<>>
    THEN [audio_segments |-> <<>>, missing_audio |-> <<>>, missing_recordings |-> <<>>]
    ELSE LET segment == Head(sc)
             rest == Collect(Tail(sc), GetSegmentState(st, segment.id), files)
             seg_state == GetSegmentState(st, segment.id)[segment.id]
         IN  CASE segment.type = "audio" /\ AudioPath(segment.content) \notin files ->
                    [rest EXCEPT !.missing_audio = <<segment.content>> \o @]
               [] segment.type = "audio" ->
                    [rest EXCEPT !.audio_segments =
                        << AudioSegment(AudioPath(segment.content), "music",
                                        segment.crossfade) >> \o @]
               [] segment.type = "text"
                    /\ (~seg_state.recorded \/ seg_state.filename = "") ->
                    [rest EXCEPT !.missing_recordings = <<segment.id>> \o @]
               [] segment.type = "text"
                    /\ RecordingPath(seg_state.filename) \notin files ->
                    [rest EXCEPT !.missing_recordings = <<segment.id>> \o @]
               [] segment.type = "text" ->
                    [rest EXCEPT !.audio_segments =
                        << AudioSegment(RecordingPath(seg_state.filename), "voice",
                                        None) >> \o @]
               [] OTHER -> rest

InitProject ==
    /\ NoBuildCalled
    /\ pc = "Project"
    /\ \E n \in 1..MaxSegments :
          \E sc \in [1..n -> UNION {SegmentsAt(k) : k \in 1..n}],
             fl \in SUBSET {AudioPath(c) : c \in {"jingle", "m2"}} :
            /\ \A k \in 1..n : sc[k] \in SegmentsAt(k)
            /\ rv = [segments |-> sc, state |-> [k \in {} |-> 0], files |-> fl]

\* cmd_record for the text segment at position k: the prompt returns a
\* recorded path (the recording is then on disk) or none
RecordSegment ==
    /\ pc = "Project"
    /\ \E k \in DOMAIN rv.segments, saved \in BOOLEAN :
          LET segment == rv.segments[k]
              st == GetSegmentState(rv.state, segment.id)
              filename == IF st[segment.id].filename # ""
                          THEN st[segment.id].filename ELSE segment.filename
          IN  /\ segment.type = "text"
              /\ rv' = IF saved
                       THEN [rv EXCEPT
                               !.state = UpdateSegmentState(st, segment.id, filename),
                               !.files = @ \cup {RecordingPath(filename)}]
                       ELSE [rv EXCEPT !.state = st]
    /\ UNCHANGED buildVars

\* the user adds or removes a file of the project
FileChanges ==
    /\ pc = "Project"
    /\ \E p \in {AudioPath(c) : c \in {"jingle", "m2"}}
                 \cup {RecordingPath("seg_" \o ToString(k)) : k \in 1..MaxSegments} :
          rv' = [rv EXCEPT !.files = IF p \in @ THEN @ \ {p} ELSE @ \cup {p}]
    /\ UNCHANGED buildVars

NextProject ==
    \/ RecordSegment
    \/ FileChanges

SpecProject == InitProject /\ [][NextProject]_vars

-----------------------------------------------------------------------------
(* The specification of two builds on two output directories, taking turns *)
(* as above.  Each directory holds a _temp_ file before the builds start.  *)

OtherDir == "output_b"     \* the output_dir of the second Builder

\* the clip lists of these builds: those above, and one whose first clip
\* lies in the first build's output directory
ApartLists ==
    TwoBuildLists
        \cup { << AudioSegment(Intro, "music", None), AudioSegment(V3, "voice", None) >> }

\* a _temp_ file that lies in the second build's directory
OtherLeftover ==
    LET p == Path(OtherDir, "_temp_", "0", ".wav")
    IN  [q \in {p} |-> Audio(Ms(1000), <<p>>)]

InitApart ==
    /\ output_dir = "output"
    /\ normalization_lufs = ParseLufs(DefaultNormalization)
    /\ segments \in ApartLists
    /\ gap \in {None, Some(Ms(1000))}
    /\ crossfade_defaults = BuilderPolicy(PartialPolicy)
    /\ normalize \in BOOLEAN
    /\ output_filename = [stem |-> "show", ext |-> ".mp3"]
    /\ fs = OtherLeftover @@ InitialFiles
    /\ fs0 = fs
    /\ pc = "Validating"
    /\ i = 0
    /\ current_file = NoFile
    /\ temp_counter = 0
    /\ merged_file = NoFile
    /\ success = FALSE
    /\ result = NoFile
    /\ diag = ""
    /\ failed_at = 0
    /\ checked = <<>>
    /\ calls = <<>>
    /\ faults = MaxFaults
    /\ rv = NoCall
    /\ \E segs \in ApartLists, norm \in BOOLEAN :
          other = [Called(2, segs, norm, [stem |-> "show", ext |-> ".mp3"])
                       EXCEPT !.output_dir = OtherDir]

SpecApart == InitApart /\ [][NextTwo]_vars

-----------------------------------------------------------------------------
(* Properties of build *)

\* build got past validation
PastValidation == diag \notin {"", "EmptyInput", "MissingInput"}

TempFiles(f) == {p \in DOMAIN f : MatchesTempGlob(p)}

\* the positions in the log of the calls of the tools ops
CallsOf(ops) == {k \in 1..Len(calls) : calls[k].op \in ops}

MergeOps == {"crossfade", "concat"}
LoudnormOps == {"loudnorm_analyze", "loudnorm_measured", "loudnorm_single"}
ExportOps == {"encode", "convert"}

\* the positions in the log of the export: the call that writes the output path
ExportCalls == {k \in CallsOf(ExportOps) : calls[k].out = OutputPath}

\* C1: after build returns, for every outcome that got past validation
\* (success, a failed merge step, a failed normalization, a failed export),
\* the output directory holds no file matching _temp_*.wav (other than a
\* file of the caller that was there, and is as it was, when build was called).
C1_NoTempFilesAfterBuild ==
    (Returned /\ PastValidation)
        => \A p \in TempFiles(fs) : Exists(fs0, p) /\ fs[p] = fs0[p]

\* C2: when build ends in a fatal failure (merge or export), no output file
\* written by this build is left at the requested output path.
C2_NoPartialOutputAfterFailure ==
    (pc = "Failed" /\ diag \in {"MergeFailure", "ExportFailure"})
        => (Exists(fs, OutputPath)
               => Exists(fs0, OutputPath) /\ fs[OutputPath] = fs0[OutputPath])

\* C3: if any clip of a non-empty clip list has no file behind it, build
\* returns a failure before any tool is invoked, and creates and removes no
\* file; and no tool runs before every clip was tested.
C3_MissingInputGuard ==
    /\ (pc # "Validating" /\ \E k \in 1..Len(segments) : ~Exists(fs0, segments[k].path))
          => /\ pc = "Failed"
             /\ diag = "MissingInput"
             /\ result = NoFile
             /\ calls = <<>>
             /\ fs = fs0
    /\ calls # <<>>
          => \A k \in 1..Len(segments) :
                 /\ \E j \in 1..Len(checked) : checked[j] = segments[k].path
                 /\ Exists(fs0, segments[k].path)

\* C3 witness: a list of three clips whose last clip alone is missing was refused
C3_Witness ==
    /\ pc = "Failed"
    /\ diag = "MissingInput"
    /\ Len(segments) = 3
    /\ segments[3].path = Gone
    /\ Exists(fs0, segments[1].path)
    /\ Exists(fs0, segments[2].path)

\* C4: build called with an empty clip list returns the EmptyInput failure
\* without invoking a tool, without creating or deleting a file and without
\* testing the existence of any file.
C4_EmptyInputGuard ==
    (segments = <<>> /\ pc # "Validating")
        => /\ pc = "Failed"
           /\ diag = "EmptyInput"
           /\ result = NoFile
           /\ calls = <<>>
           /\ checked = <<>>
           /\ fs = fs0

\* C4 witness: an empty clip list was refused
C4_Witness == segments = <<>> /\ pc = "Failed" /\ diag = "EmptyInput"

\* C5: if the transform of merge step i fails, nothing runs after it (the
\* failing transform is the last tool call), build returns no result, and
\* every intermediate the build created is released: the file system holds
\* no file it did not hold when build was called.
C5_MergeFailureReleasesAll ==
    (pc = "Failed" /\ diag = "MergeFailure")
        => /\ result = NoFile
           /\ calls[Len(calls)].op \in MergeOps
           /\ calls[Len(calls)].res # "ok"
           /\ CallsOf(LoudnormOps) = {}
           /\ ExportCalls = {}
           /\ DOMAIN fs \subseteq DOMAIN fs0

\* the export of this build failed: the encode transform reported an error,
\* or no file is at the requested output path
ExportFailed ==
    \/ \E k \in CallsOf({"encode"}) : calls[k].res # "ok"
    \/ ~Exists(fs, OutputPath)

NormCalls(c) ==
    {k \in 1..Len(c) : c[k].op \in {"loudnorm_measured", "loudnorm_single"}}

NormFailedIn(c) == \E k \in NormCalls(c) : c[k].res # "ok"

\* the track the normalization transform was given
NormInput == calls[CHOOSE k \in NormCalls(calls) : TRUE].ins[1]

\* C7: the Normalizing phase always advances to Exporting; if the
\* normalization transform fails, the merged track stays the track to export
\* and its file is left as it was, and the exporter is then invoked on
\* exactly that track.
C7_NormalizationFailureNonFatal ==
    [][ /\ pc = "Normalizing" => pc' = "Exporting"
        /\ (pc = "Normalizing" /\ NormFailedIn(calls'))
              => /\ merged_file' = merged_file
                 /\ Exists(fs, merged_file)
                       => /\ Exists(fs', merged_file)
                          /\ fs'[merged_file] = fs[merged_file]
        /\ (pc = "Exporting" /\ NormFailedIn(calls))
              => /\ Len(calls') = Len(calls) + 1
                 /\ calls'[Len(calls')].op \in ExportOps
                 /\ calls'[Len(calls')].out = OutputPath
                 /\ calls'[Len(calls')].ins = <<NormInput>>
      ]_vars

\* C7 witness: a build whose normalization failed reached Done
C7_Witness ==
    /\ pc = "Done"
    /\ result = OutputPath
    /\ NormFailedIn(calls)
    /\ Exists(fs, OutputPath)

\* C8: if the analyze pass output cannot be parsed (no "{", no "}" after it,
\* text that is not JSON, or the tool errored), the next tool call is the
\* single-pass normalization, not the correction pass with measured values;
\* and when that and the export succeed build returns the output path.
C8_UnparsableAnalysisFallsBack ==
    \A k \in CallsOf({"loudnorm_analyze"}) :
        (calls[k].res # "ok" \/ calls[k].note # "json")
            => /\ k < Len(calls)
               /\ calls[k + 1].op = "loudnorm_single"
               /\ CallsOf({"loudnorm_measured"}) = {}
               /\ (/\ Returned
                   /\ calls[k + 1].res = "ok"
                   /\ \E j \in ExportCalls : calls[j].res = "ok")
                     => pc = "Done" /\ result = OutputPath

\* the default of the policy for a pair of kinds, key by key
PolicyDefault(policy, p, n) ==
    CASE p = "voice" /\ n = "voice" /\ "voice_to_voice" \in DOMAIN policy
            -> policy["voice_to_voice"]
      [] p = "voice" /\ n = "music" /\ "voice_to_music" \in DOMAIN policy
            -> policy["voice_to_music"]
      [] p = "music" /\ n = "voice" /\ "music_to_voice" \in DOMAIN policy
            -> policy["music_to_voice"]
      [] p = "music" /\ n = "music" /\ "music_to_music" \in DOMAIN policy
            -> policy["music_to_music"]
      [] OTHER -> 300 * Den

\* C9: _get_crossfade_duration returns the override whenever there is one
\* (an override of 0 included, whatever the kinds); with no override, the
\* policy's duration for prev_to_next; and 0.3 s for a pair the policy lacks.
C9_ResolverContract ==
    rv.out # None
        => /\ rv.override # None => rv.out = rv.override
           /\ rv.override = None
                 => rv.out = Some(PolicyDefault(crossfade_defaults, rv.prev, rv.next))

\* C9 witness: an override of 0 was returned for a pair whose default is not 0
C9_Witness ==
    /\ rv.out = Some(0)
    /\ rv.override = Some(0)
    /\ PolicyDefault(crossfade_defaults, rv.prev, rv.next) # 0

\* the accumulated track at call k of the log: the output of the merge call
\* before it, the first clip when there is none
AccumulatedAt(k) ==
    LET before == {j \in CallsOf(MergeOps) : j < k}
    IN  IF before = {} THEN segments[1].path
        ELSE calls[CHOOSE j \in before : \A h \in before : h <= j].out

\* C10: in crossfade mode every blend window given to the crossfade transform
\* is at most half the smaller of d1 and d2, d1 the duration measured on the
\* accumulated track and d2 the duration measured on the next clip.
C10_CrossfadeWindowClamped ==
    \A k \in CallsOf({"crossfade"}) :
        /\ k >= 3
        /\ calls[k].ins[1] = AccumulatedAt(k)
        /\ calls[k - 2].op = "measure"
        /\ calls[k - 2].ins = <<AccumulatedAt(k)>>
        /\ calls[k - 1].op = "measure"
        /\ calls[k - 1].ins = <<calls[k].ins[2]>>
        /\ 2 * calls[k].arg <= Min(calls[k - 2].arg, calls[k - 1].arg)

\* C10 witness: the second merge step crossfaded the accumulated track with
\* a clip whose override (5 s) exceeds both durations, over a window of half
\* the clip's 2 s
C10_Witness ==
    \E k \in CallsOf({"crossfade"}) :
        /\ calls[k].ins[1] = TempOutput(0)
        /\ Len(segments) = 3
        /\ segments[3].crossfade = Some(Ms(5000))
        /\ calls[k].ins[2] = segments[3].path
        /\ calls[k].arg = Ms(1000)
        /\ calls[k].res = "ok"

\* the duration the resolver owes the step that merges clip k + 1 (1-based)
\* into the accumulated track: the clip's override, else the policy's default
Resolved(k) ==
    IF segments[k + 1].crossfade # None THEN segments[k + 1].crossfade[1]
    ELSE PolicyDefault(crossfade_defaults, segments[k].type, segments[k + 1].type)

\* C11: in crossfade mode, when the resolved duration clamped to half the
\* smaller measured duration is below 0.05 s, the step invokes the plain
\* concatenation of [current, next] and not the crossfade transform, and
\* the merged track lasts d1 + d2 exactly.
C11_BelowFloorConcatenates ==
    [][ (pc = "Merging" /\ Len(segments) > 1 /\ gap = None)
          => LET n == Len(calls')
                 t == calls'[n]
                 d1 == calls'[n - 2].arg
                 d2 == calls'[n - 1].arg
                 below == \/ Resolved(i) < 50 * Den
                          \/ Min(d1, d2) < 2 * 50 * Den
             IN  below
                   => /\ t.op = "concat"
                      /\ t.ins = <<current_file, segments[i + 1].path>>
                      /\ t.res = "ok"
                            => /\ current_file' = t.out
                               /\ fs'[t.out].dur = fs[current_file].dur
                                                     + fs[segments[i + 1].path].dur
      ]_vars

\* C11 witness: a 3 s voice clip and the 80 ms jingle (default 0.1 s, clamped
\* to 40 ms) were concatenated into a track of 3.08 s
C11_Witness ==
    /\ gap = None
    /\ Len(segments) = 2
    /\ segments[1].path = V3
    /\ segments[2].path = Jingle
    /\ pc # "Merging"
    /\ Len(calls) >= 3
    /\ calls[3].op = "concat"
    /\ calls[3].res = "ok"
    /\ Exists(fs, TempOutput(0))
    /\ fs[TempOutput(0)].dur = Ms(3080)

\* the summed durations of the first k clips, as the files were when build
\* was called
RECURSIVE ClipsDuration(_)
ClipsDuration(k) ==
    IF k = 0 THEN 0 ELSE ClipsDuration(k - 1) + fs0[segments[k].path].dur

\* the silence synthesis never failed in log c
SilencesOk(c) == \A k \in 1..Len(c) : c[k].op = "silence" => c[k].res = "ok"

\* C12: in silence-gap mode every merge step synthesizes a silence of the
\* configured duration g and concatenates exactly [current, silence, next]
\* in that order; the track that holds the first k clips then lasts
\* d_1 + ... + d_k + (k - 1) * g (3 s and 2 s with a 1 s gap: 6 s).
C12_GapModeDuration ==
    [][ (pc = "Merging" /\ Len(segments) > 1 /\ gap # None)
          => LET n == Len(calls')
                 sil == calls'[n - 1]
                 cat == calls'[n]
             IN  /\ n >= 2
                 /\ sil.op = "silence"
                 /\ sil.arg = gap[1]
                 /\ cat.op = "concat"
                 /\ cat.ins = <<current_file, sil.out, segments[i + 1].path>>
                 /\ (pc' # "Failed" /\ SilencesOk(calls'))
                       => /\ current_file' = cat.out
                          /\ fs'[cat.out].dur = ClipsDuration(i + 1) + i * gap[1]
      ]_vars

\* C12 witness: clips of 3 s and 2 s were merged with a 1 s gap into 6 s
C12_Witness ==
    /\ gap = Some(Ms(1000))
    /\ Len(segments) = 2
    /\ segments[1].path = V3
    /\ segments[2].path = M2
    /\ pc = AfterMerge
    /\ merged_file = TempOutput(0)
    /\ fs[merged_file].dur = Ms(6000)
    /\ fs[merged_file].parts = <<V3, SilenceFile(1), M2>>

\* the effective window of a step: the desired duration clamped to half the
\* smaller measured duration, and 0 when that is below 0.05 s
Window(desired, d1, d2) ==
    LET c == Min(desired, Min(d1, d2) \div 2)
    IN  IF c < 50 * Den THEN 0 ELSE c

\* the summed effective windows of the merge steps logged up to position k,
\* each from the two durations measured before its transform
RECURSIVE WindowsUpTo(_)
WindowsUpTo(k) ==
    IF k = 0 THEN 0
    ELSE IF calls[k].op \in MergeOps
         THEN WindowsUpTo(k - 1)
              + Window(Resolved(Cardinality({h \in CallsOf(MergeOps) : h <= k})),
                       calls[k - 2].arg, calls[k - 1].arg)
         ELSE WindowsUpTo(k - 1)

\* the accumulated track is the output of the last merge step, and is on disk
AccumulatedOnDisk ==
    /\ Len(segments) > 1
    /\ temp_counter >= 1
    /\ current_file = TempOutput(temp_counter - 1)
    /\ Exists(fs, current_file)

\* C13: in crossfade mode the merged track lasts the sum of the clip
\* durations minus the sum of the effective (clamped, floored) windows of
\* the steps; Voice(3 s), Music(2 s), Voice(3 s, override 1 s) with
\* voice_to_music = music_to_voice = 0.1 s merge into 6.9 s.
C13_CrossfadeModeDuration ==
    (gap = None /\ AccumulatedOnDisk)
        => /\ fs[current_file].dur = ClipsDuration(i) - WindowsUpTo(Len(calls))
           /\ (/\ i = 3
               /\ segments = << AudioSegment(V3, "voice", None),
                                AudioSegment(M2, "music", None),
                                AudioSegment(W3, "voice", Some(Ms(1000))) >>
               /\ faults = 0)
                 => fs[current_file].dur = Ms(6900)

\* C13 witness: the three clips of the end-to-end example were merged with
\* windows of 0.1 s and 1 s
C13_Witness ==
    /\ gap = None
    /\ AccumulatedOnDisk
    /\ i = 3
    /\ segments[1] = AudioSegment(V3, "voice", None)
    /\ segments[2] = AudioSegment(M2, "music", None)
    /\ segments[3] = AudioSegment(W3, "voice", Some(Ms(1000)))
    /\ Len(calls) >= 6
    /\ calls[3].op = "crossfade"
    /\ calls[3].arg = Ms(100)
    /\ calls[6].op = "crossfade"
    /\ calls[6].arg = Ms(1000)
    /\ fs[current_file].dur = Ms(6900)

\* the clips a track is made of, in order (the silences between them left out)
ClipsOf(content) == SelectSeq(content.parts, LAMBDA p : p.pre # "_silence_")

\* the number of merge steps logged up to position k
StepOf(k) == Cardinality({h \in CallsOf(MergeOps) : h <= k})

\* C14: the merge is a strict left fold.  The j-th merge step combines the
\* accumulated track (the first clip, then the output of step j - 1) with
\* clip j + 1, and starts only when every earlier step has succeeded; the
\* accumulated track holds clips 1..i once each, in input order, and once
\* merging is over i is the number of clips.
C14_StrictLeftFold ==
    /\ \A k \in CallsOf(MergeOps) :
          /\ StepOf(k) < Len(segments)
          /\ calls[k].ins[1] = AccumulatedAt(k)
          /\ calls[k].ins[Len(calls[k].ins)] = segments[StepOf(k) + 1].path
          /\ calls[k].out = TempOutput(StepOf(k) - 1)
          /\ \A h \in CallsOf(MergeOps) : h < k => calls[h].res = "ok"
    /\ AccumulatedOnDisk
          => ClipsOf(fs[current_file]) = [k \in 1..i |-> segments[k].path]
    /\ (Len(segments) > 1 /\ pc \in {"Normalizing", "Exporting", "CleaningUp", "Done"})
          => i = Len(segments)

\* C14 witness: three different clips were folded into _temp_1.wav in two steps
C14_Witness ==
    /\ pc = AfterMerge
    /\ AccumulatedOnDisk
    /\ i = 3
    /\ current_file = TempOutput(1)
    /\ ClipsOf(fs[current_file]) = <<W3, V3, M2>>
    /\ Cardinality(CallsOf(MergeOps)) = 2

\* C15: build never deletes, renames or overwrites the backing file of an
\* input clip, on any exit path: at every moment the file of every clip is
\* what it was when build was called (wherever the clip is stored and
\* whatever its name).
C15_InputFilesUntouched ==
    \A k \in 1..Len(segments) :
        Exists(fs0, segments[k].path)
            => /\ Exists(fs, segments[k].path)
               /\ fs[segments[k].path] = fs0[segments[k].path]

\* the phases that may follow a phase, Failed apart
PhaseAfter(p) ==
    CASE p = "Validating" -> {"Merging"}
      [] p = "Merging" -> {"Normalizing", "Exporting"}
      [] p = "Normalizing" -> {"Exporting"}
      [] p = "Exporting" -> {"CleaningUp"}
      [] p = "CleaningUp" -> {"Done"}
      [] OTHER -> {}

\* the merge is over in log c: the single clip was converted, or the last
\* of the N - 1 merge steps succeeded
MergeOverIn(c) ==
    IF Len(segments) = 1
    THEN \E k \in 1..Len(c) : c[k].op = "convert" /\ c[k].out = TempSingle
    ELSE LET done == {k \in 1..Len(c) : c[k].op \in MergeOps /\ c[k].res = "ok"}
         IN  Cardinality(done) = Len(segments) - 1

\* C16: the phases of a build occur only in the order Validating, Merging,
\* Normalizing, Exporting, CleaningUp, Done (Normalizing skipped when it is
\* not asked for, Failed apart): a phase is left only for a later one, so
\* none is entered twice; every normalization transform comes after the
\* last merge step succeeded and before the export; a result is returned
\* only in Done, after the cleanup removed the temp files.
C16_PhaseOrder ==
    [][ /\ pc' # pc => pc' \in PhaseAfter(pc) \cup {"Failed"}
        /\ pc \in {"Done", "Failed"} => pc' = pc
        /\ \A k \in 1..Len(calls') :
              /\ calls'[k].op \in LoudnormOps
                    => /\ MergeOverIn(SubSeq(calls', 1, k - 1))
                       /\ \A j \in 1..(k - 1) :
                             ~(calls'[j].op \in ExportOps /\ calls'[j].out = OutputPath)
              /\ (calls'[k].op \in ExportOps /\ calls'[k].out = OutputPath)
                    => /\ MergeOverIn(SubSeq(calls', 1, k - 1))
                       /\ pc' \in {"CleaningUp", "Done", "Failed"}
                       /\ \A j \in (k + 1)..Len(calls') :
                             calls'[j].op \notin MergeOps \cup LoudnormOps
        /\ pc' = "Normalizing" => normalize /\ MergeOverIn(calls')
        /\ pc' = "Exporting" => MergeOverIn(calls')
                                 /\ (normalize => CallsOf(LoudnormOps)' # {})
        /\ result' # NoFile
              => /\ pc' = "Done"
                 /\ pc \in {"CleaningUp", "Done"}
                 /\ TempFiles(fs') = {}
      ]_vars

\* C16 witness: a build of three clips went through normalization and
\* export and returned its output
C16_Witness ==
    /\ pc = "Done"
    /\ result = OutputPath
    /\ normalize
    /\ Len(segments) = 3
    /\ CallsOf(LoudnormOps) # {}
    /\ ExportCalls # {}

\* the positions in the log of the merge transforms that failed
FailedMerges == {k \in CallsOf(MergeOps) : calls[k].res # "ok"}

\* C17: a merge step that fails is reported as a merge failure, with the
\* 1-based index of the offending pair (the pair of clips j and j + 1 is
\* reported as j), and no other failure (empty input, missing input, export
\* failure) is reported as one.
C17_MergeFailureDiagnostic ==
    /\ FailedMerges # {}
          => /\ pc = "Failed"
             /\ diag = "MergeFailure"
             /\ result = NoFile
             /\ FailedMerges = {Len(calls)}
             /\ failed_at = StepOf(Len(calls))
             /\ failed_at \in 1..(Len(segments) - 1)
             /\ calls[Len(calls)].ins[Len(calls[Len(calls)].ins)]
                    = segments[failed_at + 1].path
             /\ failed_at > 1
                   => ClipsOf(fs[calls[Len(calls)].ins[1]])
                         = [k \in 1..failed_at |-> segments[k].path]
    /\ diag = "MergeFailure" => FailedMerges # {}
    /\ pc = "Failed" => diag \in {"EmptyInput", "MissingInput", "MergeFailure",
                                   "ExportFailure"}
    /\ failed_at # 0 => diag = "MergeFailure"

\* C17 witness: the step that merges the third clip of three failed and was
\* reported as pair 2
C17_Witness ==
    /\ pc = "Failed"
    /\ diag = "MergeFailure"
    /\ Len(segments) = 3
    /\ failed_at = 2
    /\ calls[Len(calls)].ins[1] = TempOutput(0)

\* build b (its locals) is in its merge loop with steps left to do, and its
\* accumulated track is the output of its last step
Accumulating(b) ==
    /\ b.pc = "Merging"
    /\ b.temp_counter >= 1
    /\ b.i < Len(b.segments)
    /\ StartsWithTemp(b.current_file)

\* the accumulated track of build b is on disk and holds the clips b merged
Intact(b) ==
    /\ Exists(fs, b.current_file)
    /\ ClipsOf(fs[b.current_file]) = [k \in 1..b.i |-> b.segments[k].path]

\* C18: two builds on one output directory are not safe, because the temp
\* names are not namespaced per invocation: two builds that are both in
\* their merge loop after the same number of steps hold the same file as
\* their accumulated track, and when they merged different clips that file
\* is the accumulated track of at most one of them.
C18_SharedTempNames ==
    (/\ other.id # 0
     /\ Accumulating(Locals(0))
     /\ Accumulating(other)
     /\ temp_counter = other.temp_counter)
        => /\ current_file = other.current_file
           /\ current_file = TempOutput(temp_counter - 1)
           /\ [k \in 1..i |-> segments[k].path]
                  # [k \in 1..other.i |-> other.segments[k].path]
                 => ~(Intact(Locals(0)) /\ Intact(other))

\* C18 witness: a build that still has a merge step to do has lost its
\* accumulated track, which the other build overwrote and then swept away
\* before it returned its own output
C18_Witness ==
    /\ other.id # 0
    /\ Accumulating(other)
    /\ other.current_file = TempOutput(0)
    /\ ~Exists(fs, other.current_file)
    /\ pc = "Done"
    /\ \E k \in CallsOf(MergeOps) : calls[k].out = TempOutput(0) /\ calls[k].res = "ok"

\* the files a crashed run left in the output directory before this build
LeftoversAtCall == DOMAIN fs0 \cap DOMAIN Leftovers

\* C19: the temp-prefixed files (_temp_*, _silence_*) that an earlier crashed
\* run left in the output directory are removed by a sweep at the start and
\* at the end of the build: none of them is there once validation has
\* passed, and none when build returns, whatever its outcome.
C19_LeftoversSwept ==
    /\ (pc = "Merging" /\ calls = <<>>) => LeftoversAtCall \cap DOMAIN fs = {}
    /\ Returned => LeftoversAtCall \cap DOMAIN fs = {}

\* the merge artifacts on disk in file system f: the files named _temp_<k>.wav
MergeArtifacts(f) == {p \in DOMAIN f : \E k \in 0..MaxClips : p = TempOutput(k)}

\* after a merge step that succeeded, the step's output is the accumulated
\* track and the only merge artifact on disk
OneAccumulatedTrack ==
    [][ (pc = "Merging" /\ Len(segments) > 1 /\ pc' # "Failed")
          => /\ current_file' = TempOutput(temp_counter)
             /\ MergeArtifacts(fs') = {current_file'}
             /\ current_file # current_file' => current_file \notin MergeArtifacts(fs')
      ]_vars

\* C20: after every merge step that succeeded exactly one merge artifact is
\* the accumulated track and it is the only merge temp file on disk, the
\* previous one having been removed; and the first clip, an input, is not
\* removed when it is retired as the accumulated track.
C20_SingleCurrentArtifact ==
    [][ (pc = "Merging" /\ Len(segments) > 1 /\ pc' # "Failed")
          => /\ current_file' = TempOutput(temp_counter)
             /\ MergeArtifacts(fs') = {current_file'}
             /\ current_file = segments[1].path
                   => /\ Exists(fs', segments[1].path)
                      /\ fs'[segments[1].path] = fs[segments[1].path]
      ]_vars

\* C21: the text handed to the JSON parser is the substring of the analyze
\* pass output that runs from the first "{" of the output to its last "}".
C21_ReportIsFirstToLast ==
    rv.out # None
        => LET opens == {k \in 1..Len(rv.stderr) : rv.stderr[k] = "{"}
               closes == {k \in 1..Len(rv.stderr) : rv.stderr[k] = "}"}
           IN  (opens # {} /\ closes # {})
                 => LET a == CHOOSE k \in opens : \A j \in opens : k <= j
                        b == CHOOSE k \in closes : \A j \in closes : j <= k
                    IN  a < b => rv.out[1] = Some(SubSeq(rv.stderr, a, b))

\* C22: in silence-gap mode a failure of the silence synthesis is fatal to
\* its merge step: the concatenation that follows it fails, build returns
\* with a merge failure, and no merged track without the configured gap is
\* produced.
C22_SilenceFailureIsFatal ==
    \A k \in CallsOf({"silence"}) :
        calls[k].res # "ok"
            => /\ k < Len(calls)
               /\ calls[k + 1].op = "concat"
               /\ calls[k + 1].res # "ok"
               /\ pc = "Failed"
               /\ diag = "MergeFailure"
               /\ result = NoFile

\* C23: with a gap configured (a gap of 0 included) no merge step measures
\* a duration or invokes the crossfade transform: every step is the silence
\* synthesis of the gap followed by the concatenation of [current, silence,
\* next], whatever the clips' durations and crossfade overrides, and the
\* only duration measured is that of the exported file.
C23_GapModeIgnoresCrossfade ==
    gap # None
        => /\ CallsOf({"crossfade"}) = {}
           /\ \A k \in CallsOf({"measure"}) : calls[k].ins = <<OutputPath>> /\ pc = "Done"
           /\ \A k \in CallsOf({"concat"}) :
                 /\ k > 1
                 /\ calls[k - 1].op = "silence"
                 /\ calls[k - 1].arg = gap[1]
                 /\ calls[k].ins = <<AccumulatedAt(k), calls[k - 1].out,
                                     segments[StepOf(k) + 1].path>>

\* C23 witness: with a gap of 0, a clip that carries a 5 s crossfade
\* override was joined to a 3 s clip by concatenation, into 5 s
C23_Witness ==
    /\ gap = Some(0)
    /\ Len(segments) = 2
    /\ segments[1].path = V3
    /\ segments[2].crossfade = Some(Ms(5000))
    /\ pc = AfterMerge
    /\ Len(calls) = 2
    /\ calls[2].op = "concat"
    /\ calls[2].res = "ok"
    /\ fs[merged_file].dur = Ms(5000)

\* C24: a duration measurement that fails yields 0 and does not abort the
\* build: in a crossfade-mode merge step where the measurement of the
\* accumulated track or of the next clip failed, the transform invoked is
\* the plain concatenation of [current, next], and the step fails only if
\* that concatenation does.
C24_FailedMeasurementConcatenates ==
    /\ \A k \in CallsOf({"measure"}) : calls[k].res # "ok" => calls[k].arg = 0
    /\ gap = None
          => \A k \in CallsOf(MergeOps) :
                /\ k >= 3
                /\ calls[k - 2].op = "measure"
                /\ calls[k - 1].op = "measure"
                /\ (calls[k - 2].res # "ok" \/ calls[k - 1].res # "ok")
                      => /\ calls[k].op = "concat"
                         /\ calls[k].ins = <<AccumulatedAt(k),
                                             segments[StepOf(k) + 1].path>>
                         /\ (calls[k].res = "ok" /\ k = Len(calls))
                               => pc # "Failed"
    /\ (pc = "Failed" /\ diag = "MergeFailure")
          => calls[Len(calls)].op \in MergeOps /\ calls[Len(calls)].res # "ok"

\* C24 witness: the measurement of an existing 3 s clip failed, the two
\* clips were concatenated and the build went on to return its output
C24_Witness ==
    /\ gap = None
    /\ pc = "Done"
    /\ Len(segments) = 2
    /\ segments[1].path = V3
    /\ segments[2].path = M2
    /\ calls[1].op = "measure"
    /\ calls[1].res = "error"
    /\ calls[1].arg = 0
    /\ calls[3].op = "concat"
    /\ calls[3].res = "ok"
    /\ Exists(fs, OutputPath)
    /\ fs[OutputPath].dur = Ms(5000)

\* C25: with exactly one clip build invokes no crossfade, no concatenation,
\* no silence synthesis and no duration measurement before the export: its
\* first tool call converts the clip into _temp_single.wav, and that file
\* (or the normalized file made from it) is what is normalized and exported.
C25_SingleClipNoTransition ==
    Len(segments) = 1
        => /\ CallsOf({"crossfade", "concat", "silence"}) = {}
           /\ \A k \in CallsOf({"measure"}) :
                 /\ calls[k].ins = <<OutputPath>>
                 /\ ExportCalls # {}
                 /\ \A j \in ExportCalls : j < k
           /\ calls # <<>>
                 => /\ calls[1].op = "convert"
                    /\ calls[1].ins = <<segments[1].path>>
                    /\ calls[1].out = TempSingle
           /\ \A k \in 2..Len(calls) :
                 /\ calls[k].op \in LoudnormOps => calls[k].ins = <<TempSingle>>
                 /\ calls[k].op \in ExportOps
                       => /\ calls[k].out = OutputPath
                          /\ calls[k].ins \in {<<TempSingle>>, <<TempNormalized>>}
           /\ pc \in {"Normalizing", "Exporting", "CleaningUp", "Done"}
                 => calls # <<>>

\* C25 witness: one clip was converted, normalized and exported
C25_Witness ==
    /\ Len(segments) = 1
    /\ pc = "Done"
    /\ Len(calls) = 5
    /\ calls[1].op = "convert"
    /\ calls[2].op = "loudnorm_analyze"
    /\ calls[3].op = "loudnorm_measured"
    /\ calls[3].res = "ok"
    /\ calls[4].ins = <<TempNormalized>>
    /\ calls[5].op = "measure"

\* C26: a build that reaches its export invokes exactly one export
\* transform: the mp3 encode, with the configured bitrate, when the output
\* filename ends in .mp3, and the generic conversion otherwise; no export
\* transform is invoked before.
C26_ExportTransformChoice ==
    /\ pc \in {"Validating", "Merging", "Normalizing", "Exporting"} => ExportCalls = {}
    /\ (pc \in {"CleaningUp", "Done"} \/ (pc = "Failed" /\ diag = "ExportFailure"))
          => /\ Cardinality(ExportCalls) = 1
             /\ \A k \in ExportCalls :
                   /\ k >= Len(calls) - 1
                   /\ output_filename.ext = ".mp3"
                         => calls[k].op = "encode" /\ calls[k].arg = Bitrate
                   /\ output_filename.ext # ".mp3" => calls[k].op = "convert"
    /\ \A k \in CallsOf({"encode"}) : k \in ExportCalls

\* C26 witness: a build named show.wav exported through the generic conversion
C26_Witness ==
    /\ pc = "Done"
    /\ output_filename.ext = ".wav"
    /\ Len(segments) = 2
    /\ \E k \in ExportCalls : calls[k].op = "convert" /\ calls[k].res = "ok"

\* C27: build returns the output path only if an export transform of this
\* build wrote the output file; a file that was at the output path before
\* the build does not make a build whose conversion or export failed
\* return the path.
C27_ReturnsOnlyWhatItExported ==
    result # NoFile
        => \E k \in ExportCalls : calls[k].out = result /\ calls[k].res # "error"

\* the invocations of the step being taken
NewCalls == (Len(calls) + 1)..Len(calls')

\* p holds what an invocation before the k-th wrote
ProducedBefore(p, k) ==
    \E j \in 1..(k - 1) : calls'[j].out = p /\ calls'[j].res # "error"

\* p is there when the k-th invocation, one of the step being taken, reads
\* it: every step invokes its transforms before it unlinks anything, but for
\* the return, which measures the output after the cleanup
PresentAt(p, k) ==
    /\ Exists(fs, p) \/ \E j \in NewCalls : j < k /\ ProducedBefore(p, j + 1)
    /\ pc = "CleaningUp" => Exists(fs', p)

\* the build has not removed p before its k-th invocation
NotRemovedBefore(p, k) ==
    PresentAt(p, k) \/ (~Exists(fs0, p) /\ ~ProducedBefore(p, k))

\* C28: no transform is invoked on a file the build has removed: the
\* accumulated track of a merge step, the track given to the normalizer and
\* the track given to the exporter have not been unlinked before, and
\* neither has any other input that the build itself produced; the merged
\* track is unlinked before the export only by a normalization that
\* succeeded and replaced it.
C28_NoUseAfterUnlink ==
    [][ /\ \A k \in NewCalls :
              \A q \in 1..Len(calls'[k].ins) :
                 LET p == calls'[k].ins[q]
                     track == q = 1 /\ calls'[k].op \in MergeOps \cup LoudnormOps \cup ExportOps
                 IN  (track \/ ProducedBefore(p, k)) => NotRemovedBefore(p, k)
        /\ pc' = "Exporting"
              => /\ NotRemovedBefore(merged_file', Len(calls') + 1)
                 /\ (pc = "Normalizing" /\ Exists(fs, merged_file) /\ ~Exists(fs', merged_file))
                       => /\ calls'[Len(calls')].op \in {"loudnorm_measured", "loudnorm_single"}
                          /\ calls'[Len(calls')].out = TempNormalized
                          /\ calls'[Len(calls')].res = "ok"
                          /\ merged_file' = TempNormalized
                          /\ merged_file' # merged_file
                          /\ Exists(fs', TempNormalized)
      ]_vars

\* C28 witness: three clips merged and normalized; the normalized track went
\* to the exporter after the merged track had been unlinked
C28_Witness ==
    /\ pc = "Done"
    /\ Len(segments) = 3
    /\ \E k \in ExportCalls : calls[k].ins = <<TempNormalized>> /\ calls[k].res = "ok"
    /\ \E k \in CallsOf({"loudnorm_measured"}) : calls[k].ins = <<TempOutput(1)>>
    /\ ~Exists(fs, TempOutput(1))

\* C29: whenever the crossfade transform is invoked its blend window is at
\* least 0.05 s, never zero or negative, whatever the override (negative and
\* zero included), the policy value and the measured durations (0 included);
\* the window is never more than half the shorter measured duration.
C29_CrossfadeWindowAtLeastFloor ==
    \A k \in CallsOf({"crossfade"}) :
        /\ calls[k].arg >= Ms(50)
        /\ calls[k].arg > 0
        /\ k >= 3
        /\ calls[k - 2].op = "measure" /\ calls[k - 1].op = "measure"
        /\ calls[k - 2].arg > 0 /\ calls[k - 1].arg > 0
        /\ 2 * calls[k].arg <= Min(calls[k - 2].arg, calls[k - 1].arg)

\* C29 witness: a crossfade invoked with a window of exactly 0.05 s, the
\* override of the second clip
C29_Witness ==
    /\ pc = "Done"
    /\ Len(segments) = 2
    /\ segments[2].crossfade = Some(CrossfadeFloor)
    /\ \E k \in CallsOf({"crossfade"}) : calls[k].arg = CrossfadeFloor /\ calls[k].res = "ok"

\* a clip with a negative override was merged by concatenation
NegativeOverrideConcatenated ==
    /\ pc = "Done"
    /\ Len(segments) = 2
    /\ segments[2].crossfade # None
    /\ segments[2].crossfade[1] < 0
    /\ CallsOf({"concat"}) # {}

\* C30: the helper files of a step do not outlive it: once a silence-gap
\* merge step is over its _silence_<k>.wav is gone, once a concatenation is
\* over, succeeded or failed, _concat_list.txt is gone, and neither is there
\* when build returns.
C30_HelperFilesRemoved ==
    /\ \A k \in CallsOf({"silence"}) : ~Exists(fs, calls[k].out)
    /\ CallsOf({"concat"}) # {} => ~Exists(fs, ConcatList)
    /\ Returned
          => /\ ~Exists(fs, ConcatList)
             /\ \A k \in 0..(temp_counter + 1) : ~Exists(fs, SilenceFile(k))

\* C30 witness: a silence-gap build of three clips whose second step wrote
\* its silence file and then failed in the concatenation
C30_Witness ==
    /\ pc = "Failed"
    /\ diag = "MergeFailure"
    /\ Len(segments) = 3
    /\ Len(calls) = 4
    /\ calls[3].op = "silence" /\ calls[3].res = "ok" /\ calls[3].out = SilenceFile(2)
    /\ calls[4].op = "concat" /\ calls[4].res = "error_partial"

\* the log c holds a loudness transform that wrote the normalized track
NormSucceededIn(c) ==
    \E k \in 1..Len(c) :
        /\ c[k].op \in {"loudnorm_measured", "loudnorm_single"}
        /\ c[k].res = "ok"

\* the track that leaves the merge: the converted clip, or the last step's output
MergedArtifact ==
    IF Len(segments) = 1 THEN TempSingle ELSE TempOutput(Len(segments) - 2)

\* C31: when the normalization succeeds the merged track is removed and the
\* exporter is given the normalized track; with normalize=False no loudness
\* transform (analyze, correction, single pass) is invoked and the exporter
\* is given the merged track.
C31_ExporterInput ==
    [][ /\ (pc = "Normalizing" /\ NormSucceededIn(calls'))
              => /\ merged_file = MergedArtifact
                 /\ merged_file' = TempNormalized
                 /\ Exists(fs', TempNormalized)
                 /\ ~Exists(fs', MergedArtifact)
        /\ pc = "Exporting"
              => /\ Len(calls') = Len(calls) + 1
                 /\ calls'[Len(calls')].op \in ExportOps
                 /\ NormSucceededIn(calls)
                       => /\ calls'[Len(calls')].ins = <<TempNormalized>>
                          /\ ~Exists(fs, MergedArtifact)
                 /\ ~normalize => calls'[Len(calls')].ins = <<MergedArtifact>>
        /\ ~normalize
              => /\ \A k \in 1..Len(calls') : calls'[k].op \notin LoudnormOps
                 /\ pc' # "Normalizing"
      ]_vars

\* a build of two clips with normalize=False exported its merged track
UnnormalizedExported ==
    /\ pc = "Done"
    /\ ~normalize
    /\ Len(segments) = 2
    /\ \E k \in ExportCalls : calls[k].ins = <<TempOutput(0)>> /\ calls[k].res = "ok"

\* C31 witness: a build of two clips whose normalization succeeded exported
\* the normalized track, the merged track being gone
C31_Witness ==
    /\ pc = "Done"
    /\ Len(segments) = 2
    /\ ~Exists(fs, TempOutput(0))
    /\ NormSucceededIn(calls)
    /\ \E k \in ExportCalls : calls[k].ins = <<TempNormalized>> /\ calls[k].res = "ok"

\* the step being taken changes path p: creates, overwrites or deletes it
Changed(p) ==
    \/ Exists(fs, p) # Exists(fs', p)
    \/ Exists(fs, p) /\ Exists(fs', p) /\ fs[p] # fs'[p]

\* C32: of two builds that take turns on distinct output directories, no
\* step of one creates, overwrites or deletes a file in the directory of
\* the other, and no transform of one is given an output path there.
C32_DistinctDirectoriesIsolated ==
    [][ /\ other.output_dir # output_dir
        /\ output_dir' = output_dir
              => /\ \A p \in DOMAIN fs \cup DOMAIN fs' :
                       Changed(p) => p.dir = output_dir /\ p.dir # other.output_dir
                 /\ \A k \in NewCalls :
                       calls'[k].out # NoFile => calls'[k].out.dir = output_dir
      ]_vars

\* C32 witness: both builds returned their output, each in its own
\* directory, the second after it had swept the _temp_ file of its directory
C32_Witness ==
    /\ pc = "Done"
    /\ other.pc = "Done"
    /\ result # NoFile /\ other.result # NoFile
    /\ result.dir # other.result.dir
    /\ Exists(fs, result) /\ Exists(fs, other.result)
    /\ DOMAIN OtherLeftover \cap DOMAIN fs = {}

\* C33: a Recorder has at most one living rec process, the one it holds;
\* start_recording while one is held returns False and leaves the process,
\* the temp path and the files as they are; stop_recording while none is
\* held returns None and changes nothing; after stop_recording the Recorder
\* holds no process and none is alive.
C33_OneRecordingProcess ==
    [][ /\ Cardinality(Alive(rv')) <= 1
        /\ \A p \in Alive(rv') : rv'.recording_process = p
        /\ (rv'.op = "start_recording" /\ rv.recording_process # 0)
              => /\ rv'.ret = <<"False">>
                 /\ rv'.recording_process = rv.recording_process
                 /\ rv'.recording_temp_path = rv.recording_temp_path
                 /\ rv'.procs = rv.procs
                 /\ rv'.files = rv.files
        /\ (rv'.op = "stop_recording" /\ rv.recording_process = 0)
              => /\ rv'.ret = <<"None">>
                 /\ rv'.recording_process = 0
                 /\ rv'.recording_temp_path = rv.recording_temp_path
                 /\ rv'.procs = rv.procs
                 /\ rv'.files = rv.files
        /\ rv'.op = "stop_recording"
              => /\ rv'.recording_process = 0
                 /\ Alive(rv') = {}
                 /\ IsRecording(rv').ret = <<"False">>
      ]_vars

\* C33 witness: start_recording was refused while the second rec process of
\* this Recorder was recording
C33_Witness ==
    /\ pc = "Recording"
    /\ rv.op = "start_recording"
    /\ rv.ret = <<"False">>
    /\ rv.recording_process = 2
    /\ Alive(rv) = {2}
    /\ rv.arg = "seg_2"
    /\ rv.recording_temp_path = RecTempPath("seg_1")

\* C34: once stop_recording(filename) has been called, the temp file of the
\* background recording of filename is no more: it was turned into the
\* final recording or deleted, whatever calls came before and even if the
\* rec process had exited on its own.
C34_TempFileResolvedByStop ==
    [][ rv'.op = "stop_recording" => ~Exists(rv'.files, RecTempPath(rv'.arg)) ]_vars

\* C35: every recording that on_stop_recording saved during the prompt, on
\* SPACE or on Q pressed while recording, is reported: the recorded path
\* that show_prompt returns is that path, and the session marks the segment
\* as recorded.
C35_SavedRecordingReported ==
    (rv.returned # <<>> /\ rv.saved # <<>>)
        => /\ rv.returned[2] = Some(rv.saved[Len(rv.saved)])
           /\ rv.recorded

\* what cmd_build passes to the builder when nothing is missing: every
\* script segment, in script order, audio as music, text as voice
RECURSIVE WholeScript(_, _)
WholeScript(sc, st) ==
    IF sc = <<>> THEN <<>>
    ELSE << IF Head(sc).type = "audio"
            THEN AudioSegment(AudioPath(Head(sc).content), "music", Head(sc).crossfade)
            ELSE AudioSegment(RecordingPath(SegStateOrDefault(st, Head(sc).id).filename),
                              "voice", None) >>
         \o WholeScript(Tail(sc), st)

\* C36: in every project state the CLI's updates lead to, if check reports
\* ready_for_build then cmd_build finds no missing recording and no missing
\* audio file and passes every script segment to the builder, in script
\* order, audio segments as music and text segments as voice.
C36_CheckAgreesWithBuild ==
    (pc = "Project" /\ ReadyForBuild(rv.segments, rv.state, rv.files))
        => LET b == Collect(rv.segments, rv.state, rv.files)
           IN  /\ b.missing_recordings = <<>>
               /\ b.missing_audio = <<>>
               /\ Len(b.audio_segments) = Len(rv.segments)
               /\ b.audio_segments = WholeScript(rv.segments, rv.state)
               /\ \A k \in DOMAIN rv.segments :
                     b.audio_segments[k].type
                         = (IF rv.segments[k].type = "audio" THEN "music" ELSE "voice")

\* C36 witness: a script of an audio link and a text, the text recorded and
\* both files there: check reports ready_for_build
C36_Witness ==
    /\ pc = "Project"
    /\ Len(rv.segments) = 2
    /\ rv.segments[1].type = "audio"
    /\ rv.segments[2].type = "text"
    /\ 2 \in DOMAIN rv.state
    /\ rv.state[2].recorded
    /\ ReadyForBuild(rv.segments, rv.state, rv.files)

\* value[a..b] is a signed number: an optional minus, digits, and
\* optionally a point and digits
IsSignedNumber(value, a, b) ==
    LET d0 == IF value[a] = "-" THEN a + 1 ELSE a
    IN  \E p \in d0..b :
          /\ \A k \in d0..p : IsDigit(value[k])
          /\ \/ p = b
             \/ /\ p + 2 <= b
                /\ value[p + 1] = "."
                /\ \A k \in (p + 2)..b : IsDigit(value[k])

\* the signed numbers in value, as <<first position, last position>>
SignedNumbers(value) ==
    {ab \in (1..Len(value)) \X (1..Len(value)) :
        ab[1] <= ab[2] /\ IsSignedNumber(value, ab[1], ab[2])}

\* the first signed number: none starts before it, none that starts with
\* it is longer
FirstSignedNumber(value) ==
    CHOOSE ab \in SignedNumbers(value) :
        \A cd \in SignedNumbers(value) :
            ab[1] < cd[1] \/ (ab[1] = cd[1] /\ cd[2] <= ab[2])

\* C37: the loudness target is the first signed number found in the
\* normalization string, -16 when the string holds no number, and it is
\* the value passed to every loudness transform of the build.
C37_TargetIsFirstSignedNumber ==
    "normalization" \in DOMAIN rv
        => /\ normalization_lufs =
                 (IF SignedNumbers(rv.normalization) = {} THEN (0 - 16) * LufsDen
                  ELSE LET ab == FirstSignedNumber(rv.normalization)
                       IN  FloatOf(rv.normalization, ab[1], ab[2]))
           /\ \A k \in CallsOf(LoudnormOps) : calls[k].arg = normalization_lufs

\* a string without a number was given and the build applied -16 LUFS
DefaultTargetApplied ==
    /\ "normalization" \in DOMAIN rv
    /\ rv.normalization = <<".", "-", ".">>
    /\ \E k \in CallsOf({"loudnorm_measured"}) : calls[k].arg = (0 - 16) * LufsDen

\* C37 witness: the string "-1.6" was given and the two passes of the
\* loudness transform got -1.6 LUFS
C37_Witness ==
    /\ "normalization" \in DOMAIN rv
    /\ rv.normalization = <<"-", "1", ".", "6">>
    /\ CallsOf({"loudnorm_analyze"}) # {}
    /\ \E k \in CallsOf({"loudnorm_measured"}) :
          calls[k].arg = 0 - (16 * LufsDen) \div 10

\* the invocations that write a merge step's temp_output
MergeCalls == {k \in CallsOf({"crossfade", "concat"}) : calls[k].out.pre = "_temp_"}

\* C38: within one build the output file of every transform differs from
\* each of its input files, and the temp names of distinct merge steps are
\* pairwise distinct (_temp_<i-1>.wav for step i).
C38_OutputApartFromInputs ==
    /\ \A k \in 1..Len(calls) :
          \A j \in 1..Len(calls[k].ins) : calls[k].out # calls[k].ins[j]
    /\ \A j \in MergeCalls, k \in MergeCalls :
          j # k => calls[j].out # calls[k].out
    /\ pc = "Merging" /\ i >= 1 => temp_counter = i - 1

====
